---- MODULE Spec2Model ----
(***************************************************************************)
(* Model of the chat relay server "ai chat/chat_server.py": the users and  *)
(* conversations tables of its SQLite database, the /api/chat handler with *)
(* its background save thread, the conversation endpoints and the          *)
(* register / login endpoints, and the chat loop of the terminal client    *)
(* "ai chat/chat_client.py".                                               *)
(*                                                                         *)
(* Text is a sequence of one-character strings, so that str.strip() and    *)
(* len() are computed and not assumed.  Every request handler runs on its  *)
(* own thread (Flask's threaded server) and every SQL statement is one     *)
(* step: handlers interleave between statements.  A connection that has    *)
(* executed DELETE / INSERT / UPDATE holds SQLite's write lock and keeps   *)
(* its changes private until commit(); other connections read the         *)
(* committed tables.                                                       *)
(***************************************************************************)
EXTENDS Integers, Sequences, FiniteSets, TLC

VARIABLES
    config,         \* security.password_min_length of the loaded configuration
    users,          \* committed rows of table users
    nextUserId,     \* next AUTOINCREMENT id of table users
    conversations,  \* committed rows of table conversations
    nextConvId,     \* next AUTOINCREMENT id of table conversations
    txn,            \* the open write transaction (SQLite allows one writer)
    now,            \* CURRENT_TIMESTAMP, in seconds
    turn,           \* the /api/chat request handlers
    save,           \* the save_conversation_to_db threads, one per turn
    auth,           \* the /api/user/register and /api/user/login handlers
    resp,           \* the response of the last conversation endpoint call
    writeLog,       \* history: the committed writes to table conversations
    client          \* the terminal client chat_client.py of one user

vars == <<config, users, nextUserId, conversations, nextConvId, txn, now,
          turn, save, auth, resp, writeLog, client>>

-----------------------------------------------------------------------------
(* Bounds of the model.                                                    *)

MaxTurns == 2       \* /api/chat requests in a run
MaxAuth == 2        \* register / login requests in a run
MaxClock == 1       \* seconds the clock may advance
MaxStoreOps == 2    \* clear / delete requests in a run

Turns == 1..MaxTurns
AuthSlots == 1..MaxAuth

-----------------------------------------------------------------------------
(* Text.                                                                   *)

sp == " "

RECURSIVE lstrip(_)
lstrip(s) == IF s = <<>> THEN s
             ELSE IF Head(s) = sp THEN lstrip(Tail(s)) ELSE s

RECURSIVE rstrip(_)
rstrip(s) == IF s = <<>> THEN s
             ELSE IF s[Len(s)] = sp THEN rstrip(SubSeq(s, 1, Len(s) - 1)) ELSE s

\* str.strip(): leading and trailing whitespace removed
strip(s) == rstrip(lstrip(s))

\* hashlib.sha256(password.encode()).hexdigest(): a deterministic function of
\* the password, taken to be free of collisions
hash_password(password) == <<"sha256">> \o password

\* password_hash TEXT: NULL for a legacy row (no digest is empty)
NULL == <<>>

\* json.dumps / json.loads of a list of {role, content} objects
json_dumps(history) == [json |-> history]
json_loads(text) == text.json

Msg(role, content) == [role |-> role, content |-> content]

-----------------------------------------------------------------------------
(* The database: committed tables, and the one open write transaction.     *)

NoTxn == [owner |-> 0, conversations |-> {}, nextConvId |-> 0, journal |-> {}]

\* SELECT ... FROM users WHERE username = ?
user_rows(username) == {u \in users : u.username = username}

\* the rows of table conversations of one user, in a given table state
UserRows(table, user_id) == {c \in table : c.user_id = user_id}

\* ... FROM conversations c JOIN users u ON c.user_id = u.id WHERE u.username = ?
ConversationsOf(table, username) ==
    {c \in table : \E u \in user_rows(username) : c.user_id = u.id}

\* ORDER BY c.updated_at ASC LIMIT 1
LatestOf_oldest(rows) ==
    {c \in rows : \A d \in rows : d.updated_at >= c.updated_at}

\* ORDER BY c.updated_at DESC LIMIT 1: rows with equal updated_at come in an
\* order SQL leaves open, so every row with the greatest updated_at may be first
LatestOf(rows) == {c \in rows : \A d \in rows : d.updated_at <= c.updated_at}

NoTime == -1

-----------------------------------------------------------------------------
(* The inference backend, seen from the server: the outcome of one POST.   *)

HttpOutcome(status, valid, content) ==
    [net |-> "ok", status |-> status, valid |-> valid, content |-> content]
NetOutcome(kind) ==
    [net |-> kind, status |-> 0, valid |-> FALSE, content |-> <<>>]

\* check_lm_studio(): True iff the test POST got one of these status codes
check_lm_studio(o) == o.net = "ok" /\ o.status \in {200, 400, 422, 500}

-----------------------------------------------------------------------------
(* /api/chat.                                                              *)

NoReq == [username |-> <<>>, message |-> <<>>, conversation_history |-> <<>>]

IdleTurn ==
    [pc |-> "idle", req |-> NoReq, username |-> <<>>, message |-> <<>>,
     conversation_history |-> <<>>, messages |-> <<>>, online |-> "unknown",
     posted |-> FALSE, outcome |-> NetOutcome("none"), status |-> 0,
     response |-> <<>>, out_history |-> <<>>, saved |-> FALSE,
     seq |-> 0, probed |-> NetOutcome("none")]

IdleSave == [pc |-> "none", username |-> <<>>, conversation_history |-> <<>>,
             user_id |-> 0, messages_json |-> json_dumps(<<>>)]

\* chat_client.py, lines 126-127: no user logged in, an empty history
IdleClient ==
    [pc |-> "input", current_user |-> <<>>, conversation_history |-> <<>>,
     prompt |-> <<>>, prompts |-> 0, sent |-> 0, lost |-> 0,
     result |-> "none", abandoned |-> {}, ticket |-> 0,
     cleared |-> FALSE, replied |-> {}]

\* the fields taken as sent, without strip()
chat_recv_step_unstripped(tr, u, m, H) ==
    LET got == [tr EXCEPT !.req = [username |-> u, message |-> m,
                                   conversation_history |-> H],
                          !.username = u, !.message = m,
                          !.conversation_history = H]
    IN  IF u = <<>> \/ m = <<>>
        THEN [got EXCEPT !.pc = "done", !.status = 400]
        ELSE [got EXCEPT !.pc = "probe"]

\* lines 536-542: read and strip the fields, reject empty ones with 400
chat_recv_step(tr, u, m, H) ==
    LET username == strip(u)
        message == strip(m)
        got == [tr EXCEPT !.req = [username |-> u, message |-> m,
                                   conversation_history |-> H],
                          !.username = username, !.message = message,
                          !.conversation_history = H]
    IN  IF username = <<>> \/ message = <<>>
        THEN [got EXCEPT !.pc = "done", !.status = 400]
        ELSE [got EXCEPT !.pc = "probe"]

\* the handler probing again instead of answering 503
chat_probe_step_polls(tr, online) ==
    IF ~online
    THEN [tr EXCEPT !.online = "offline"]
    ELSE [tr EXCEPT !.pc = "await", !.online = "online", !.posted = TRUE,
                    !.messages = Append(tr.conversation_history,
                                        Msg("user", tr.message))]

\* the payload built on the history itself, not on a copy of it
chat_probe_step_alias(tr, online) ==
    IF ~online
    THEN [tr EXCEPT !.pc = "done", !.status = 503, !.online = "offline"]
    ELSE [tr EXCEPT !.pc = "await", !.online = "online", !.posted = TRUE,
                    !.conversation_history = Append(tr.conversation_history,
                                                    Msg("user", tr.message)),
                    !.messages = Append(tr.conversation_history,
                                        Msg("user", tr.message))]

\* the 503 return left out: the turn goes on whatever the probe said
chat_probe_step_no_return(tr, online) ==
    [tr EXCEPT !.pc = "await",
               !.online = IF online THEN "online" ELSE "offline",
               !.posted = TRUE,
               !.messages = Append(tr.conversation_history,
                                   Msg("user", tr.message))]

\* lines 544-561: 503 when the probe says offline, else build the payload from
\* a copy of the history plus the user message and POST it
chat_probe_step(tr, online) ==
    IF ~online
    THEN [tr EXCEPT !.pc = "done", !.status = 503, !.online = "offline"]
    ELSE [tr EXCEPT !.pc = "await", !.online = "online", !.posted = TRUE,
                    !.messages = Append(tr.conversation_history,
                                        Msg("user", tr.message))]

\* the two appends in the other order
append_exchange_swapped(conversation_history, message, ai_response) ==
    Append(Append(conversation_history, Msg("assistant", ai_response)),
           Msg("user", message))

\* the exchange appended to the payload, which holds the user message already
append_exchange_on_payload(conversation_history, message, ai_response) ==
    Append(Append(Append(conversation_history, Msg("user", message)),
                  Msg("user", message)),
           Msg("assistant", ai_response))

\* lines 569-571: the two appends to conversation_history
append_exchange(conversation_history, message, ai_response) ==
    Append(Append(conversation_history, Msg("user", message)),
           Msg("assistant", ai_response))

\* lines 561-598: the outcome of the completion POST decides the response
chat_complete_step(tr, o) ==
    IF o.net = "timeout" THEN [tr EXCEPT !.pc = "done", !.status = 504]
    ELSE IF o.net # "ok" THEN [tr EXCEPT !.pc = "done", !.status = 500]
    ELSE IF o.status # 200 THEN [tr EXCEPT !.pc = "done", !.status = 500]
    ELSE IF ~o.valid THEN [tr EXCEPT !.pc = "done", !.status = 500]
    ELSE LET history == append_exchange(tr.conversation_history, tr.message,
                                        o.content)
         IN  [tr EXCEPT !.pc = "done", !.status = 200,
                        !.conversation_history = history,
                        !.response = o.content, !.out_history = history,
                        !.saved = TRUE]

\* history: the outcome the handler met and its place among the answered turns
Answered == {k \in Turns : turn[k].status = 200}
Noted(tr, o) ==
    [tr EXCEPT !.outcome = o,
               !.seq = IF tr.status = 200 THEN Cardinality(Answered) + 1 ELSE 0]

\* the thread given the request payload instead of the updated history
start_save_payload(tr, started) ==
    IF tr.status = 200 /\ started
    THEN [pc |-> "start", username |-> tr.username,
          conversation_history |-> tr.messages, user_id |-> 0,
          messages_json |-> json_dumps(<<>>)]
    ELSE IF tr.status = 200
    THEN [pc |-> "not_started", username |-> <<>>,
          conversation_history |-> <<>>, user_id |-> 0,
          messages_json |-> json_dumps(<<>>)]
    ELSE [pc |-> "none", username |-> <<>>, conversation_history |-> <<>>,
          user_id |-> 0, messages_json |-> json_dumps(<<>>)]

\* the thread started whatever the completion gave
start_save_unanswered(tr, started) ==
    IF started
    THEN [IdleSave EXCEPT !.pc = "start", !.username = tr.username,
                          !.conversation_history = tr.conversation_history]
    ELSE IF tr.status = 200 THEN [IdleSave EXCEPT !.pc = "not_started"]
    ELSE IdleSave

\* lines 581-591: the save thread gets the username and a copy of the history;
\* a failure to start it is only printed
start_save(tr, started) ==
    IF tr.status = 200 /\ started
    THEN [IdleSave EXCEPT !.pc = "start", !.username = tr.username,
                          !.conversation_history = tr.conversation_history]
    ELSE IF tr.status = 200 THEN [IdleSave EXCEPT !.pc = "not_started"]
    ELSE IdleSave

ChatRecv(t, u, m, H) ==
    /\ turn[t].pc = "idle"
    /\ \A k \in 1..(t - 1) : turn[k].pc # "idle"
    /\ turn' = [turn EXCEPT ![t] = chat_recv_step(turn[t], u, m, H)]
    /\ UNCHANGED <<client, config, users, nextUserId, conversations, nextConvId, txn,
                   now, save, auth, resp, writeLog>>

ChatProbe(t, o) ==
    /\ turn[t].pc = "probe"
    /\ turn' = [turn EXCEPT ![t] = [chat_probe_step(turn[t], check_lm_studio(o))
                                       EXCEPT !.probed = o]]
    /\ UNCHANGED <<client, config, users, nextUserId, conversations, nextConvId, txn,
                   now, save, auth, resp, writeLog>>

ChatComplete(t, o, started) ==
    /\ turn[t].pc = "await"
    /\ LET done == chat_complete_step(turn[t], o)
       IN  /\ turn' = [turn EXCEPT ![t] = Noted(done, o)]
           /\ save' = [save EXCEPT ![t] = start_save(done, started)]
    /\ UNCHANGED <<client, config, users, nextUserId, conversations, nextConvId, txn,
                   now, auth, resp, writeLog>>

-----------------------------------------------------------------------------
(* save_conversation_to_db, on its own thread.                             *)

\* the DELETE left out: every save adds a row
save_delete_none(table, user_id) == table

\* the DELETE matching the row id instead of the owner
save_delete_by_row_id(table, user_id) == {c \in table : c.id # user_id}

\* the DELETE with its condition negated
save_delete_others(table, user_id) == UserRows(table, user_id)

\* line 620: DELETE FROM conversations WHERE user_id = ?
save_delete(table, user_id) == table \ UserRows(table, user_id)

\* lines 621-624: INSERT INTO conversations (user_id, messages, updated_at)
save_insert(table, id, user_id, messages_json, time) ==
    table \cup {[id |-> id, user_id |-> user_id, messages |-> messages_json,
                 updated_at |-> time]}

LogEntry(kind, user_id, t) == [kind |-> kind, user_id |-> user_id, turn |-> t]

\* an unknown username saved under user id 0 instead of ending the save
SaveSelectUserAnonymous(t) ==
    /\ save[t].pc = "start"
    /\ LET found == user_rows(save[t].username)
       IN  save' = [save EXCEPT ![t] =
               [@ EXCEPT !.pc = "selected",
                         !.user_id = IF found = {} THEN 0
                                     ELSE (CHOOSE u \in found : TRUE).id,
                         !.messages_json =
                             json_dumps(save[t].conversation_history)]]
    /\ UNCHANGED <<client, config, users, nextUserId, conversations,
                   nextConvId, txn, now, turn, auth, resp, writeLog>>

\* the thread reading the history of the turn answered last instead of the
\* copy it was given
SaveSelectUserShared(t) ==
    /\ save[t].pc = "start"
    /\ LET found == user_rows(save[t].username)
           answered == {k \in Turns : turn[k].status = 200}
           last == CHOOSE k \in answered : \A j \in answered :
                                              turn[j].seq <= turn[k].seq
       IN  save' = [save EXCEPT ![t] =
               IF found = {}
               THEN [@ EXCEPT !.pc = "no_user"]
               ELSE [@ EXCEPT !.pc = "selected",
                              !.user_id = (CHOOSE u \in found : TRUE).id,
                              !.messages_json =
                                  json_dumps(turn[last].out_history)]]
    /\ UNCHANGED <<client, config, users, nextUserId, conversations,
                   nextConvId, txn, now, turn, auth, resp, writeLog>>

\* lines 609-617: look the user up; an unknown username ends the save
SaveSelectUser(t) ==
    /\ save[t].pc = "start"
    /\ LET found == user_rows(save[t].username)
       IN  save' = [save EXCEPT ![t] =
               IF found = {}
               THEN [@ EXCEPT !.pc = "no_user"]
               ELSE [@ EXCEPT !.pc = "selected",
                              !.user_id = (CHOOSE u \in found : TRUE).id,
                              !.messages_json =
                                  json_dumps(save[t].conversation_history)]]
    /\ UNCHANGED <<client, config, users, nextUserId, conversations, nextConvId, txn,
                   now, turn, auth, resp, writeLog>>

\* the connection in autocommit mode: the DELETE is committed on its own
SaveDeleteAutocommit(t) ==
    /\ save[t].pc = "selected"
    /\ txn.owner = 0
    /\ conversations' = save_delete(conversations, save[t].user_id)
    /\ txn' = [owner |-> t,
               conversations |-> save_delete(conversations, save[t].user_id),
               nextConvId |-> nextConvId,
               journal |-> conversations]
    /\ save' = [save EXCEPT ![t].pc = "deleted"]
    /\ UNCHANGED <<client, config, users, nextUserId, nextConvId, now,
                   turn, auth, resp, writeLog>>

\* line 620: the first write statement opens the transaction (sqlite3 issues
\* BEGIN before DELETE) and takes the write lock; the rows go from this
\* connection's view only
SaveDelete(t) ==
    /\ save[t].pc = "selected"
    /\ txn.owner = 0
    /\ txn' = [owner |-> t,
               conversations |-> save_delete(conversations, save[t].user_id),
               nextConvId |-> nextConvId,
               journal |-> conversations]
    /\ save' = [save EXCEPT ![t].pc = "deleted"]
    /\ UNCHANGED <<client, config, users, nextUserId, conversations, nextConvId, now,
                   turn, auth, resp, writeLog>>

\* lines 621-624: the INSERT, inside the same transaction
SaveInsert(t) ==
    /\ save[t].pc = "deleted"
    /\ txn.owner = t
    /\ txn' = [txn EXCEPT
               !.conversations = save_insert(@, txn.nextConvId, save[t].user_id,
                                             save[t].messages_json, now),
               !.nextConvId = @ + 1]
    /\ save' = [save EXCEPT ![t].pc = "inserted"]
    /\ UNCHANGED <<client, config, users, nextUserId, conversations, nextConvId, now,
                   turn, auth, resp, writeLog>>

\* the connection closed without commit(): the transaction is rolled back
SaveCloseUncommitted(t) ==
    /\ save[t].pc = "inserted"
    /\ txn.owner = t
    /\ txn' = NoTxn
    /\ save' = [save EXCEPT ![t].pc = "committed"]
    /\ UNCHANGED <<client, config, users, nextUserId, conversations, nextConvId, now,
                   turn, auth, resp, writeLog>>

\* lines 626-628: commit() publishes the transaction's table to every reader
SaveCommit(t) ==
    /\ save[t].pc = "inserted"
    /\ txn.owner = t
    /\ conversations' = txn.conversations
    /\ nextConvId' = txn.nextConvId
    /\ txn' = NoTxn
    /\ save' = [save EXCEPT ![t].pc = "committed"]
    /\ writeLog' = Append(writeLog, LogEntry("save", save[t].user_id, t))
    /\ UNCHANGED <<client, config, users, nextUserId, now, turn, auth, resp>>

\* the connection closed with what it had executed so far committed
SaveFailCommitted(t) ==
    /\ save[t].pc \in {"start", "selected", "deleted", "inserted"}
    /\ conversations' = IF txn.owner = t THEN txn.conversations
                        ELSE conversations
    /\ nextConvId' = IF txn.owner = t THEN txn.nextConvId ELSE nextConvId
    /\ txn' = IF txn.owner = t THEN NoTxn ELSE txn
    /\ save' = [save EXCEPT ![t].pc = "failed"]
    /\ UNCHANGED <<client, config, users, nextUserId, now, turn, auth, resp,
                   writeLog>>

\* the failure written back into the turn's answer
SaveFailSurfaced(t) ==
    /\ save[t].pc \in {"start", "selected", "deleted", "inserted"}
    /\ txn' = IF txn.owner = t THEN NoTxn ELSE txn
    /\ save' = [save EXCEPT ![t].pc = "failed"]
    /\ turn' = [turn EXCEPT ![t].saved = FALSE, ![t].status = 500]
    /\ UNCHANGED <<client, config, users, nextUserId, conversations, nextConvId, now,
                   auth, resp, writeLog>>

\* lines 630-632: any exception (an I/O error, "database is locked" after the
\* busy timeout) is printed; the connection goes away uncommitted, which rolls
\* the transaction back
SaveFail(t) ==
    /\ save[t].pc \in {"start", "selected", "deleted", "inserted"}
    /\ txn' = IF txn.owner = t THEN NoTxn ELSE txn
    /\ save' = [save EXCEPT ![t].pc = "failed"]
    /\ UNCHANGED <<client, config, users, nextUserId, conversations, nextConvId, now,
                   turn, auth, resp, writeLog>>

SaveStep(t) ==
    SaveSelectUser(t) \/ SaveDelete(t) \/ SaveInsert(t) \/ SaveCommit(t)

\* CURRENT_TIMESTAMP advances
Tick ==
    /\ now < MaxClock
    /\ now' = now + 1
    /\ UNCHANGED <<client, config, users, nextUserId, conversations, nextConvId, txn,
                   turn, save, auth, resp, writeLog>>

-----------------------------------------------------------------------------
(* The conversation endpoints.  resp holds the response of the last call   *)
(* and the number of calls made.                                           *)

NoResp == [n |-> 0, op |-> "none", username |-> <<>>, conversation_id |-> 0,
           status |-> 0, messages |-> <<>>, updated_at |-> NoTime,
           conversations |-> <<>>, timestamp |-> NoTime,
           total_messages |-> 0, preview_messages |-> <<>>,
           raised |-> FALSE]

Reply(op, u, status) ==
    [NoResp EXCEPT !.n = resp.n + 1, !.op = op, !.username = u,
                   !.status = status]

\* the response to a request that names a conversation
ReplyFor(op, u, conversation_id, status) ==
    [Reply(op, u, status) EXCEPT !.conversation_id = conversation_id]

TitleMax == 50
Ellipsis == <<".", ".", ".">>
EmptyTitle == <<"Empty conversation">>

\* the content cut as soon as it reaches 50 characters
title_of_cut_at_limit(messages) ==
    LET held == SelectSeq(messages, LAMBDA msg : msg.role = "user")
    IN  IF held = <<>> THEN EmptyTitle
        ELSE IF Len(held[1].content) >= TitleMax
        THEN SubSeq(held[1].content, 1, TitleMax) \o Ellipsis
        ELSE held[1].content

\* lines 427-432: the first user message, cut to 50 characters
RECURSIVE title_of(_)
title_of(messages) ==
    IF messages = <<>> THEN EmptyTitle
    ELSE IF Head(messages).role = "user"
         THEN LET content == Head(messages).content
              IN  IF Len(content) > TitleMax
                  THEN SubSeq(content, 1, TitleMax) \o Ellipsis
                  ELSE content
         ELSE title_of(Tail(messages))

\* lines 434-439
list_entry(row) ==
    [id |-> row.id, title |-> title_of(json_loads(row.messages)),
     message_count |-> Len(json_loads(row.messages)),
     updated_at |-> row.updated_at]

\* the rows in ascending order of updated_at
Orderings_ascending(rows) ==
    {s \in [1..Cardinality(rows) -> rows] :
        /\ \A i, j \in DOMAIN s : i # j => s[i] # s[j]
        /\ \A i, j \in DOMAIN s : i < j => s[i].updated_at <= s[j].updated_at}

\* ORDER BY c.updated_at DESC: every order of the rows that SQL allows
Orderings(rows) ==
    {s \in [1..Cardinality(rows) -> rows] :
        /\ \A i, j \in DOMAIN s : i # j => s[i] # s[j]
        /\ \A i, j \in DOMAIN s : i < j => s[i].updated_at >= s[j].updated_at}

\* lines 319-365: the responses load_conversation may give
load_conversation(u) ==
    LET username == strip(u)
        rows == ConversationsOf(conversations, username)
    IN  IF username = <<>> THEN {Reply("load", u, 400)}
        ELSE IF rows = {} THEN {Reply("load", u, 200)}
        ELSE {[Reply("load", u, 200) EXCEPT
                  !.messages = json_loads(row.messages),
                  !.updated_at = row.updated_at] : row \in LatestOf(rows)}

\* lines 397-449: the responses list_conversations may give
list_conversations(u) ==
    LET username == strip(u)
        rows == ConversationsOf(conversations, username)
    IN  IF username = <<>> THEN {Reply("list", u, 400)}
        ELSE {[Reply("list", u, 200) EXCEPT
                  !.conversations = [i \in DOMAIN s |-> list_entry(s[i])]] :
              s \in Orderings(rows)}

\* the SELECT without its condition on the username
select_conversation_any_owner(u, conversation_id) ==
    LET username == strip(u)
        rows == {c \in conversations : c.id = conversation_id}
    IN  IF username = <<>> \/ conversation_id = 0
        THEN {ReplyFor("select", u, conversation_id, 400)}
        ELSE IF rows = {} THEN {ReplyFor("select", u, conversation_id, 404)}
        ELSE {[ReplyFor("select", u, conversation_id, 200) EXCEPT
                  !.messages = json_loads(row.messages),
                  !.updated_at = row.updated_at] : row \in rows}

\* lines 451-492
select_conversation(u, conversation_id) ==
    LET username == strip(u)
        rows == {c \in ConversationsOf(conversations, username) :
                    c.id = conversation_id}
    IN  IF username = <<>> \/ conversation_id = 0
        THEN {ReplyFor("select", u, conversation_id, 400)}
        ELSE IF rows = {} THEN {ReplyFor("select", u, conversation_id, 404)}
        ELSE {[ReplyFor("select", u, conversation_id, 200) EXCEPT
                  !.messages = json_loads(row.messages),
                  !.updated_at = row.updated_at] : row \in rows}

PreviewCount == 6
PreviewMax == 100

\* line 669: messages[-6:]
last_messages(messages) ==
    SubSeq(messages,
           IF Len(messages) > PreviewCount
           THEN Len(messages) - PreviewCount + 1 ELSE 1,
           Len(messages))

\* lines 670-672: the role relabelled, the content cut to 100 characters
preview_entry(msg) ==
    [role |-> IF msg.role = "user" THEN "You" ELSE "AI",
     content |-> IF Len(msg.content) > PreviewMax
                 THEN SubSeq(msg.content, 1, PreviewMax) \o Ellipsis
                 ELSE msg.content]

\* the preview taken from the front of the conversation
preview_of_first(messages) ==
    [i \in 1..(IF Len(messages) < PreviewCount
               THEN Len(messages) ELSE PreviewCount) |->
        preview_entry(messages[i])]

\* lines 667-672
preview_of(messages) ==
    [i \in DOMAIN last_messages(messages) |->
        preview_entry(last_messages(messages)[i])]

\* lines 634-689: the responses conversation_summary may give
conversation_summary(u) ==
    LET username == strip(u)
        rows == ConversationsOf(conversations, username)
    IN  IF username = <<>> THEN {Reply("summary", u, 400)}
        ELSE IF rows = {} THEN {Reply("summary", u, 200)}
        ELSE {[Reply("summary", u, 200) EXCEPT
                  !.timestamp = row.updated_at,
                  !.total_messages = Len(json_loads(row.messages)),
                  !.preview_messages = preview_of(json_loads(row.messages))] :
              row \in LatestOf(rows)}

\* the exception swallowed: an empty success is returned
storage_error_swallowed(op, u, conversation_id) ==
    [ReplyFor(op, u, conversation_id, 200) EXCEPT !.raised = TRUE]

\* lines 364-365, 394-395, 448-449, 491-492, 530-531: except Exception
\* answers 500 "Database error"
storage_error(op, u, conversation_id) ==
    [ReplyFor(op, u, conversation_id, 500) EXCEPT !.raised = TRUE]

NamesConversation(op) == op \in {"select", "delete"}

\* sqlite3 raising inside the try block of a handler (an I/O error,
\* "database is locked"): nothing is committed, the except branch answers
StorageError(op, u, conversation_id) ==
    /\ resp.n < MaxStoreOps
    /\ strip(u) # <<>>
    /\ NamesConversation(op) <=> conversation_id # 0
    /\ resp' = storage_error(op, u, conversation_id)
    /\ UNCHANGED <<client, config, users, nextUserId, conversations, nextConvId, txn,
                   now, turn, save, auth, writeLog>>

ConversationSummary(u) ==
    /\ resp.n < MaxStoreOps
    /\ resp' \in conversation_summary(u)
    /\ UNCHANGED <<client, config, users, nextUserId, conversations, nextConvId, txn,
                   now, turn, save, auth, writeLog>>

LoadConversation(u) ==
    /\ resp.n < MaxStoreOps
    /\ resp' \in load_conversation(u)
    /\ UNCHANGED <<client, config, users, nextUserId, conversations, nextConvId, txn,
                   now, turn, save, auth, writeLog>>

ListConversations(u) ==
    /\ resp.n < MaxStoreOps
    /\ resp' \in list_conversations(u)
    /\ UNCHANGED <<client, config, users, nextUserId, conversations, nextConvId, txn,
                   now, turn, save, auth, writeLog>>

SelectConversation(u, conversation_id) ==
    /\ resp.n < MaxStoreOps
    /\ resp' \in select_conversation(u, conversation_id)
    /\ UNCHANGED <<client, config, users, nextUserId, conversations, nextConvId, txn,
                   now, turn, save, auth, writeLog>>

\* the DELETE of clear sparing the latest conversation
clear_rows_older(table, username) ==
    table \ (ConversationsOf(table, username)
                \ LatestOf(ConversationsOf(table, username)))

\* the DELETE of clear without its WHERE
clear_rows_all(table, username) == {}

\* lines 383-387: DELETE FROM conversations WHERE user_id = (SELECT id ...)
clear_rows(table, username) == table \ ConversationsOf(table, username)

\* the DELETE of delete without its condition on the owner
delete_rows_any_owner(table, username, conversation_id) ==
    {c \in table : c.id # conversation_id}

\* lines 511-517: DELETE ... WHERE id = ? AND user_id = (SELECT id ...)
delete_rows(table, username, conversation_id) ==
    table \ {c \in ConversationsOf(table, username) : c.id = conversation_id}

WriteLogged(kind, username) ==
    IF user_rows(username) = {} THEN writeLog
    ELSE Append(writeLog,
                LogEntry(kind, (CHOOSE r \in user_rows(username) : TRUE).id, 0))

\* lines 367-395: one DELETE and its commit, taking the write lock
ClearConversation(u) ==
    /\ resp.n < MaxStoreOps
    /\ LET username == strip(u)
       IN  IF username = <<>>
           THEN /\ resp' = Reply("clear", u, 400)
                /\ UNCHANGED <<conversations, writeLog>>
           ELSE /\ txn.owner = 0
                /\ conversations' = clear_rows(conversations, username)
                /\ writeLog' = WriteLogged("clear", username)
                /\ resp' = Reply("clear", u, 200)
    /\ UNCHANGED <<client, config, users, nextUserId, nextConvId, txn, now, turn,
                   save, auth>>

\* lines 494-531: commit only when a row was deleted, else 404
DeleteConversation(u, conversation_id) ==
    /\ resp.n < MaxStoreOps
    /\ LET username == strip(u)
           after == delete_rows(conversations, username, conversation_id)
       IN  IF username = <<>> \/ conversation_id = 0
           THEN /\ resp' = ReplyFor("delete", u, conversation_id, 400)
                /\ UNCHANGED <<conversations, writeLog>>
           ELSE /\ txn.owner = 0
                /\ IF after # conversations
                   THEN /\ conversations' = after
                        /\ writeLog' = WriteLogged("delete", username)
                        /\ resp' = ReplyFor("delete", u, conversation_id, 200)
                   ELSE /\ resp' = ReplyFor("delete", u, conversation_id, 404)
                        /\ UNCHANGED <<conversations, writeLog>>
    /\ UNCHANGED <<client, config, users, nextUserId, nextConvId, txn, now, turn,
                   save, auth>>

-----------------------------------------------------------------------------
(* /api/user/register and /api/user/login.                                 *)

\* line 228: the length register compares with
PasswordMin == 4

\* lines 116 and 124: the default of security.password_min_length
password_min_length == 4

IdleAuth ==
    [op |-> "none", pc |-> "idle", req_username |-> <<>>, req_password |-> <<>>,
     username |-> <<>>, password |-> <<>>, user_id |-> 0, status |-> 0,
     error |-> "", has_conversations |-> FALSE, is_new_user |-> FALSE]

Fail(a, status, error) == [a EXCEPT !.pc = "done", !.status = status, !.error = error]

\* lines 221-242: strip, validate, then SELECT id FROM users WHERE username = ?
register_recv_step(a, u, p) ==
    LET username == strip(u)
        password == strip(p)
        got == [a EXCEPT !.op = "register", !.req_username = u,
                         !.req_password = p, !.username = username,
                         !.password = password]
    IN  IF username = <<>> \/ password = <<>>
        THEN Fail(got, 400, "Username and password are required")
        ELSE IF Len(password) < PasswordMin
        THEN Fail(got, 400, "Password must be at least 4 characters")
        ELSE IF user_rows(username) # {}
        THEN Fail(got, 400, "Username already exists")
        ELSE [got EXCEPT !.pc = "reg_insert"]

\* lines 244-247: the row register inserts
new_user(id, username, password) ==
    [id |-> id, username |-> username, password_hash |-> hash_password(password)]

RegisterRecv(s, u, p) ==
    /\ auth[s].pc = "idle"
    /\ \A k \in 1..(s - 1) : auth[k].pc # "idle"
    /\ auth' = [auth EXCEPT ![s] = register_recv_step(auth[s], u, p)]
    /\ UNCHANGED <<client, config, users, nextUserId, conversations, nextConvId, txn,
                   now, turn, save, resp, writeLog>>

\* lines 244-258: INSERT and commit; username is UNIQUE, and a violation is an
\* exception, answered with 500
RegisterInsert(s) ==
    /\ auth[s].pc = "reg_insert"
    /\ txn.owner = 0
    /\ IF user_rows(auth[s].username) # {}
       THEN /\ auth' = [auth EXCEPT ![s] = Fail(@, 500, "Database error")]
            /\ UNCHANGED <<users, nextUserId>>
       ELSE /\ users' = users \cup
                    {new_user(nextUserId, auth[s].username, auth[s].password)}
            /\ nextUserId' = nextUserId + 1
            /\ auth' = [auth EXCEPT ![s].pc = "done", ![s].status = 200]
    /\ UNCHANGED <<client, config, conversations, nextConvId, txn, now, turn, save,
                   resp, writeLog>>

\* an unknown username answered apart from a wrong password
login_recv_step_not_found(a, u, p) ==
    LET username == strip(u)
        password == strip(p)
        got == [a EXCEPT !.op = "login", !.req_username = u,
                         !.req_password = p, !.username = username,
                         !.password = password]
        found == user_rows(username)
        user == CHOOSE r \in found : TRUE
    IN  IF username = <<>> \/ password = <<>>
        THEN Fail(got, 400, "Username and password are required")
        ELSE IF found = {}
        THEN Fail(got, 404, "User not found")
        ELSE IF user.password_hash = NULL
        THEN [got EXCEPT !.pc = "login_update", !.user_id = user.id]
        ELSE IF hash_password(password) # user.password_hash
        THEN Fail(got, 401, "Invalid username or password")
        ELSE [got EXCEPT !.pc = "login_count", !.user_id = user.id]

\* lines 263-299: strip, validate, SELECT the user row, compare the hashes; a
\* row without hash goes on to the UPDATE
login_recv_step(a, u, p) ==
    LET username == strip(u)
        password == strip(p)
        got == [a EXCEPT !.op = "login", !.req_username = u,
                         !.req_password = p, !.username = username,
                         !.password = password]
        found == user_rows(username)
        user == CHOOSE r \in found : TRUE
    IN  IF username = <<>> \/ password = <<>>
        THEN Fail(got, 400, "Username and password are required")
        ELSE IF found = {}
        THEN Fail(got, 401, "Invalid username or password")
        ELSE IF user.password_hash = NULL
        THEN [got EXCEPT !.pc = "login_update", !.user_id = user.id]
        ELSE IF hash_password(password) # user.password_hash
        THEN Fail(got, 401, "Invalid username or password")
        ELSE [got EXCEPT !.pc = "login_count", !.user_id = user.id]

LoginRecv(s, u, p) ==
    /\ auth[s].pc = "idle"
    /\ \A k \in 1..(s - 1) : auth[k].pc # "idle"
    /\ auth' = [auth EXCEPT ![s] = login_recv_step(auth[s], u, p)]
    /\ UNCHANGED <<client, config, users, nextUserId, conversations, nextConvId, txn,
                   now, turn, save, resp, writeLog>>

\* the UPDATE never committed: the row keeps its absent hash
LoginUpdateUncommitted(s) ==
    /\ auth[s].pc = "login_update"
    /\ txn.owner = 0
    /\ auth' = [auth EXCEPT ![s].pc = "login_count"]
    /\ UNCHANGED <<client, config, users, nextUserId, conversations, nextConvId, txn,
                   now, turn, save, resp, writeLog>>

\* lines 288-293: UPDATE users SET password_hash = ? WHERE id = ?, and commit
LoginUpdate(s) ==
    /\ auth[s].pc = "login_update"
    /\ txn.owner = 0
    /\ users' = {IF r.id = auth[s].user_id
                 THEN [r EXCEPT !.password_hash = hash_password(auth[s].password)]
                 ELSE r : r \in users}
    /\ auth' = [auth EXCEPT ![s].pc = "login_count"]
    /\ UNCHANGED <<client, config, nextUserId, conversations, nextConvId, txn, now,
                   turn, save, resp, writeLog>>

\* lines 301-314: SELECT COUNT(*) FROM conversations WHERE user_id = ?
login_count_step(a) ==
    LET conversation_count == Cardinality(UserRows(conversations, a.user_id))
    IN  [a EXCEPT !.pc = "done", !.status = 200,
                  !.has_conversations = conversation_count > 0,
                  !.is_new_user = conversation_count = 0]

LoginCount(s) ==
    /\ auth[s].pc = "login_count"
    /\ auth' = [auth EXCEPT ![s] = login_count_step(auth[s])]
    /\ UNCHANGED <<client, config, users, nextUserId, conversations, nextConvId, txn,
                   now, turn, save, resp, writeLog>>

-----------------------------------------------------------------------------
(* Inputs.                                                                 *)

alice == <<"a">>
bob == <<"b">>
carol == <<"c">>
blank == <<sp>>
padded(s) == <<sp>> \o s \o <<sp>>

secret == <<"s", "e", "c", "r">>
other == <<"o", "t", "h", "e", "r">>
short == <<"s", "e", "c">>

hi == <<"h", "i">>
yo == <<"y", "o">>
hello == <<"H", "e", "l", "l", "o", "!">>

\* the histories a client may send: none, what an earlier turn returned, or
\* anything else
Foreign == <<Msg("assistant", yo)>>
Returned == {turn[t].out_history : t \in {k \in Turns : turn[k].status = 200}}

\* the messages the last load or select answered
Loaded ==
    IF resp.op \in {"load", "select"} /\ resp.status = 200
    THEN {resp.messages} ELSE {}

\* the history the client holds: the one its last answered turn returned
Held ==
    LET answered == {k \in Turns : turn[k].status = 200}
        last == CHOOSE k \in answered : \A j \in answered : j <= k
    IN  IF answered = {} THEN <<>> ELSE turn[last].out_history

Online == HttpOutcome(200, TRUE, <<>>)
Completed(r) == HttpOutcome(200, TRUE, r)

ConversationIds == 1..MaxTurns

\* the ids the client can have seen in a list: those issued so far
IssuedIds == 1..(nextConvId - 1)

-----------------------------------------------------------------------------
(* The server after start-up, with alice and bob registered.               *)

Init ==
    /\ config = password_min_length
    /\ users = {new_user(1, alice, secret), new_user(2, bob, other)}
    /\ nextUserId = 3
    /\ conversations = {}
    /\ nextConvId = 1
    /\ txn = NoTxn
    /\ now = 0
    /\ turn = [t \in Turns |-> IdleTurn]
    /\ save = [t \in Turns |-> IdleSave]
    /\ auth = [s \in AuthSlots |-> IdleAuth]
    /\ resp = NoResp
    /\ writeLog = <<>>
    /\ client = IdleClient

Saving ==
    \/ \E t \in Turns : SaveSelectUser(t)
    \/ \E t \in Turns : SaveDelete(t)
    \/ \E t \in Turns : SaveInsert(t)
    \/ \E t \in Turns : SaveCommit(t)
    \/ \E t \in Turns : SaveFail(t)

\* Concurrent turns of registered users, their saves and the store endpoints.
Next ==
    \/ \E t \in Turns, u \in {alice, bob}, H \in {<<>>} \cup Returned :
           ChatRecv(t, u, hi, H)
    \/ \E t \in Turns : ChatProbe(t, Online)
    \/ \E t \in Turns : ChatComplete(t, Completed(hello), TRUE)
    \/ Saving
    \/ LoadConversation(alice)
    \/ ClearConversation(alice)

Spec == Init /\ [][Next]_vars

\* One user's concurrent turns, loads and clears; a started save thread is
\* scheduled until it returns.
LiveNext ==
    \/ \E t \in Turns, H \in {<<>>} \cup Returned : ChatRecv(t, alice, hi, H)
    \/ \E t \in Turns : ChatProbe(t, Online)
    \/ \E t \in Turns : ChatComplete(t, Completed(hello), TRUE)
    \/ Saving
    \/ LoadConversation(alice)
    \/ ClearConversation(alice)

LiveSpec ==
    Init /\ [][LiveNext]_vars /\ \A t \in Turns : WF_vars(SaveStep(t))

-----------------------------------------------------------------------------
(* Every public operation, from an empty database.                         *)

InitFresh ==
    /\ config = password_min_length
    /\ users = {}
    /\ nextUserId = 1
    /\ conversations = {}
    /\ nextConvId = 1
    /\ txn = NoTxn
    /\ now = 0
    /\ turn = [t \in Turns |-> IdleTurn]
    /\ save = [t \in Turns |-> IdleSave]
    /\ auth = [s \in AuthSlots |-> IdleAuth]
    /\ resp = NoResp
    /\ writeLog = <<>>
    /\ client = IdleClient

\* the client has the answer to everything it has sent
ClientIdle ==
    /\ \A t \in Turns : turn[t].pc \in {"idle", "done"}
    /\ \A s \in AuthSlots : auth[s].pc \in {"idle", "done"}

\* the client shows its conversation menu once a login has succeeded
LoggedIn == \E s \in AuthSlots : auth[s].op = "login" /\ auth[s].status = 200

\* One client sending one request at a time, logging in before it uses the
\* conversation endpoints; the saves run behind it.
PublicNext ==
    \/ \E s \in AuthSlots : ClientIdle /\ RegisterRecv(s, alice, secret)
    \/ \E s \in AuthSlots : RegisterInsert(s)
    \/ \E s \in AuthSlots : ClientIdle /\ LoginRecv(s, alice, secret)
    \/ \E s \in AuthSlots : LoginCount(s)
    \/ \E t \in Turns, H \in {<<>>, Held} :
           ClientIdle /\ LoggedIn /\ ChatRecv(t, alice, hi, H)
    \/ \E t \in Turns : ChatProbe(t, Online)
    \/ \E t \in Turns : ChatComplete(t, Completed(hello), TRUE)
    \/ Saving
    \/ ClientIdle /\ LoggedIn /\ ListConversations(alice)
    \/ \E id \in IssuedIds :
           ClientIdle /\ LoggedIn /\ SelectConversation(alice, id)
    \/ ClientIdle /\ LoggedIn /\ ClearConversation(alice)
    \/ \E id \in IssuedIds :
           ClientIdle /\ LoggedIn /\ DeleteConversation(alice, id)

PublicSpec == InitFresh /\ [][PublicNext]_vars

-----------------------------------------------------------------------------
(* Registration and login alone, under each configured minimum length,     *)
(* beside an account created before passwords were stored.                 *)

MinLengths == {3, password_min_length}

legacy_user == [id |-> 1, username |-> bob, password_hash |-> NULL]

\* the rows of users at start-up: the legacy account, and carol's account
InitUsers == {legacy_user, new_user(2, carol, other)}

InitAuth ==
    /\ config \in MinLengths
    /\ users = InitUsers
    /\ nextUserId = 3
    /\ conversations =
           {[id |-> 1, user_id |-> legacy_user.id,
             messages |-> json_dumps(<<Msg("user", hi), Msg("assistant", hello)>>),
             updated_at |-> 0]}
    /\ nextConvId = 2
    /\ txn = NoTxn
    /\ now = 0
    /\ turn = [t \in Turns |-> IdleTurn]
    /\ save = [t \in Turns |-> IdleSave]
    /\ auth = [s \in AuthSlots |-> IdleAuth]
    /\ resp = NoResp
    /\ writeLog = <<>>
    /\ client = IdleClient

Usernames == {alice, bob, carol, blank}
Passwords == {secret, short, padded(short), blank}

AuthNext ==
    \/ \E s \in AuthSlots, u \in Usernames, p \in Passwords :
           ClientIdle /\ RegisterRecv(s, u, p)
    \/ \E s \in AuthSlots : RegisterInsert(s)
    \/ \E s \in AuthSlots, u \in Usernames, p \in Passwords :
           ClientIdle /\ LoginRecv(s, u, p)
    \/ \E s \in AuthSlots : LoginUpdate(s)
    \/ \E s \in AuthSlots : LoginCount(s)

AuthSpec == InitAuth /\ [][AuthNext]_vars

-----------------------------------------------------------------------------
(* Registration and login requests of several clients, served by           *)
(* concurrent handler threads.                                             *)

RaceNext ==
    \/ \E s \in AuthSlots, u \in {alice, carol}, p \in {secret, other} :
           RegisterRecv(s, u, p)
    \/ \E s \in AuthSlots : RegisterInsert(s)
    \/ \E s \in AuthSlots, p \in {secret, other} : LoginRecv(s, bob, p)
    \/ \E s \in AuthSlots : LoginUpdate(s)
    \/ \E s \in AuthSlots : LoginCount(s)

RaceSpec == InitAuth /\ [][RaceNext]_vars

-----------------------------------------------------------------------------
(* One client sending turn after turn, with every input and every backend  *)
(* outcome the handler distinguishes.                                      *)

ProbeOutcomes ==
    {Online, HttpOutcome(404, TRUE, <<>>), NetOutcome("refused")}

CompletionOutcomes ==
    {Completed(hello), HttpOutcome(200, FALSE, <<>>), HttpOutcome(500, TRUE, <<>>),
     NetOutcome("refused"), NetOutcome("timeout")}

SaveActive(t) == save[t].pc \in {"start", "selected", "deleted", "inserted"}

\* every earlier turn has been answered and its save has ended
Quiet(t) == \A k \in 1..(t - 1) : turn[k].pc = "done" /\ ~SaveActive(k)

TurnNext ==
    \/ \E t \in Turns, u \in {alice, blank},
          m \in {hi, padded(hi), blank}, H \in {<<>>, Foreign} \cup Returned :
           Quiet(t) /\ ChatRecv(t, u, m, H)
    \/ \E t \in Turns, o \in ProbeOutcomes : ChatProbe(t, o)
    \/ \E t \in Turns, o \in CompletionOutcomes, started \in BOOLEAN :
           ChatComplete(t, o, started)
    \/ Saving
    \/ Tick

TurnSpec == Init /\ [][TurnNext]_vars

\* the backend answering with any of these status codes, or not at all
StatusCodes == {200, 201, 400, 401, 404, 422, 500, 503}
Responses == {HttpOutcome(c, TRUE, hello) : c \in StatusCodes}
NetFailures == {NetOutcome("refused"), NetOutcome("timeout")}

BackendNext ==
    \/ \E t \in Turns, H \in {<<>>} \cup Returned :
           Quiet(t) /\ ChatRecv(t, alice, hi, H)
    \/ \E t \in Turns, o \in Responses \cup NetFailures : ChatProbe(t, o)
    \/ \E t \in Turns, o \in Responses \cup NetFailures, started \in BOOLEAN :
           ChatComplete(t, o, started)
    \/ Saving

BackendSpec == Init /\ [][BackendNext]_vars

-----------------------------------------------------------------------------
(* Two users' turns, with select, delete and clear requests naming any     *)
(* user and any id, a missing id (0) included.                             *)

RequestIds == 0..MaxTurns

StoreNext ==
    \/ \E t \in Turns, u \in {alice, bob} :
           Quiet(t) /\ ChatRecv(t, u, IF u = alice THEN hi ELSE yo, <<>>)
    \/ \E t \in Turns : ChatProbe(t, Online)
    \/ \E t \in Turns : ChatComplete(t, Completed(hello), TRUE)
    \/ Saving
    \/ \E u \in {alice, bob}, id \in RequestIds : SelectConversation(u, id)
    \/ \E u \in {alice, bob}, id \in RequestIds : DeleteConversation(u, id)
    \/ \E u \in {alice, bob} : ClearConversation(u)

StoreSpec == Init /\ [][StoreNext]_vars

-----------------------------------------------------------------------------
(* One user's turns, clears, lists, loads and logins.                      *)

ClearNext ==
    \/ \E t \in Turns, H \in {<<>>} \cup Returned \cup Loaded :
           Quiet(t) /\ ChatRecv(t, alice, hi, H)
    \/ \E t \in Turns : ChatProbe(t, Online)
    \/ \E t \in Turns : ChatComplete(t, Completed(hello), TRUE)
    \/ Saving
    \/ ClearConversation(alice)
    \/ ListConversations(alice)
    \/ LoadConversation(alice)
    \/ \E s \in AuthSlots : ClientIdle /\ LoginRecv(s, alice, secret)
    \/ \E s \in AuthSlots : LoginCount(s)

ClearSpec == Init /\ [][ClearNext]_vars

-----------------------------------------------------------------------------
(* The chat turn: C1, C4, C5.                                              *)

Supplied(t) == turn[t].req.conversation_history

\* C1 as stated: a turn answered with success returns the supplied history
\* followed by the user message exactly as sent and the assistant reply.
C1_HistoryExtendedByRawMessage ==
    \A t \in Turns : turn[t].status = 200 =>
        turn[t].out_history =
            Supplied(t) \o <<Msg("user", turn[t].req.message),
                             Msg("assistant", turn[t].response)>>

\* C1, amended: a turn answered with success returns the supplied history,
\* unchanged, followed by exactly two messages: the user message with its
\* leading and trailing whitespace removed, then the assistant reply.
C1_HistoryExtendedByStrippedMessage ==
    \A t \in Turns : turn[t].status = 200 =>
        /\ turn[t].response = turn[t].outcome.content
        /\ turn[t].out_history =
               Supplied(t) \o <<Msg("user", strip(turn[t].req.message)),
                                Msg("assistant", turn[t].response)>>

C1_Witness ==
    \E t \in Turns :
        /\ turn[t].status = 200
        /\ Supplied(t) # <<>>
        /\ turn[t].req.message # strip(turn[t].req.message)
        /\ Len(turn[t].out_history) = Len(Supplied(t)) + 2

StoreUntouched ==
    /\ users' = users
    /\ conversations' = conversations
    /\ nextConvId' = nextConvId
    /\ txn' = txn
    /\ writeLog' = writeLog

C4_Offline(t) ==
    turn[t].online = "offline" =>
        /\ turn[t].pc = "done"
        /\ turn[t].status = 503
        /\ ~turn[t].posted
        /\ turn[t].conversation_history = Supplied(t)
        /\ save[t].pc = "none"

C4_Step(t) ==
    (turn[t].pc = "probe" /\ turn'[t].online = "offline") =>
        StoreUntouched /\ save' = save

\* C4: a turn whose probe reports offline is answered 503, posts no
\* completion request, leaves the supplied history as it was, starts no save
\* then or later, and the step leaves the database unchanged.
C4_OfflineFailsFast ==
    /\ [](\A t \in Turns : C4_Offline(t))
    /\ [][\A t \in Turns : C4_Step(t)]_vars

C4_Witness ==
    \E t \in Turns :
        /\ turn[t].online = "offline"
        /\ turn[t].status = 503
        /\ Supplied(t) # <<>>
        /\ conversations # {}

UpstreamFailed(o) ==
    \/ o.net = "timeout"
    \/ o.net = "ok" /\ o.status # 200

C5_Failed(t) ==
    UpstreamFailed(turn[t].outcome) =>
        /\ turn[t].pc = "done"
        /\ turn[t].status = IF turn[t].outcome.net = "timeout" THEN 504 ELSE 500
        /\ turn[t].conversation_history = Supplied(t)
        /\ turn[t].out_history = <<>>
        /\ save[t].pc = "none"

C5_Step(t) ==
    (turn[t].pc = "await" /\ UpstreamFailed(turn'[t].outcome)) =>
        StoreUntouched /\ save' = save

\* C5: a turn whose completion call times out is answered 504 and one whose
\* call gets a status other than 200 is answered 500; in both cases the
\* history holds neither the user message nor a reply, no save is started
\* then or later, and the step leaves the database unchanged.
C5_UpstreamFailureLeavesHistory ==
    /\ [](\A t \in Turns : C5_Failed(t))
    /\ [][\A t \in Turns : C5_Step(t)]_vars

C5_Witness ==
    \E t \in Turns :
        /\ UpstreamFailed(turn[t].outcome)
        /\ turn[t].status \in {500, 504}
        /\ Supplied(t) # <<>>
        /\ conversations # {}

-----------------------------------------------------------------------------
(* The conversation store under concurrent turns: C3, C6, C7, C8, C9.      *)

\* the committed writes to one user's conversations, oldest first
UserLog(user_id) == SelectSeq(writeLog, LAMBDA e : e.user_id = user_id)

Committed(t) == save[t].pc = "committed"

\* the one row a save of turn t leaves
RowsHold(user_id, history) ==
    /\ Cardinality(UserRows(conversations, user_id)) = 1
    /\ \A c \in UserRows(conversations, user_id) :
           json_loads(c.messages) = history

\* C3 as stated: the saves of one user commit in the order in which their
\* turns were answered.
C3_SavesCommitInCompletionOrder ==
    \A i, j \in DOMAIN writeLog :
        (/\ i < j
         /\ writeLog[i].kind = "save" /\ writeLog[j].kind = "save"
         /\ writeLog[i].user_id = writeLog[j].user_id)
        => turn[writeLog[i].turn].seq < turn[writeLog[j].turn].seq

\* C3, amended: the saves of one user are applied one after the other in the
\* order in which they commit, which need not be the order in which the turns
\* were answered: as long as no clear or delete follows, the persisted
\* conversation is the updatedHistory of the turn whose save committed last.
C3_LastCommittedSaveWins ==
    \A u \in users :
        LET log == UserLog(u.id)
        IN  (log # <<>> /\ log[Len(log)].kind = "save") =>
                RowsHold(u.id, turn[log[Len(log)].turn].out_history)

C3_Witness ==
    \E t, k \in Turns, u \in users :
        /\ Committed(t) /\ Committed(k)
        /\ turn[t].seq < turn[k].seq
        /\ turn[t].out_history # turn[k].out_history
        /\ UserLog(u.id) = <<LogEntry("save", u.id, k), LogEntry("save", u.id, t)>>
        /\ RowsHold(u.id, turn[t].out_history)

\* C6: no user ever owns more than one conversation row, whatever the
\* interleaving of the turns and their saves.
C6_AtMostOneRowPerUser ==
    \A u \in users : Cardinality(UserRows(conversations, u.id)) <= 1

C6_Witness ==
    \E t, k \in Turns :
        /\ t # k /\ Committed(t) /\ Committed(k)
        /\ save[t].user_id = save[k].user_id
        /\ Cardinality(UserRows(conversations, save[t].user_id)) = 1

InTransaction(t) == save[t].pc \in {"deleted", "inserted"} /\ txn.owner = t

\* what login would report for a user id
HasConversations(user_id) ==
    login_count_step([IdleAuth EXCEPT !.user_id = user_id]).has_conversations

\* C8: while a save is between its DELETE and its commit, every other
\* connection still reads the rows the user had before the save began:
\* load returns the old conversation, list the old entry, and login reports
\* has_conversations.
C8_ReadersNeverSeeTheGap ==
    \A t \in Turns :
        (InTransaction(t) /\ UserRows(txn.journal, save[t].user_id) # {}) =>
            LET before == UserRows(txn.journal, save[t].user_id)
            IN  /\ conversations = txn.journal
                /\ \A r \in load_conversation(save[t].username) :
                       \E c \in before : r.messages = json_loads(c.messages)
                /\ \A r \in list_conversations(save[t].username) :
                       Len(r.conversations) = Cardinality(before)
                /\ HasConversations(save[t].user_id)

C8_Witness ==
    \E t \in Turns :
        /\ save[t].pc = "deleted" /\ txn.owner = t
        /\ UserRows(txn.journal, save[t].user_id) # {}
        /\ UserRows(txn.conversations, save[t].user_id) = {}
        /\ resp.op = "load" /\ resp.username = save[t].username
        /\ resp.messages # <<>>

\* the last two committed writes of a user are saves of the same messages
SavedTwice(user_id) ==
    LET log == UserLog(user_id)
        n == Len(log)
    IN  /\ n >= 2
        /\ log[n].kind = "save" /\ log[n - 1].kind = "save"
        /\ save[log[n].turn].conversation_history =
               save[log[n - 1].turn].conversation_history

\* C9: after two saves in a row of the same message sequence for a user, the
\* user owns exactly one row, and it holds that sequence.
C9_SaveTwiceLeavesOneRow ==
    \A u \in users :
        SavedTwice(u.id) =>
            LET log == UserLog(u.id)
            IN  RowsHold(u.id, save[log[Len(log)].turn].conversation_history)

C9_Witness ==
    \E u \in users :
        /\ SavedTwice(u.id)
        /\ \E c \in UserRows(conversations, u.id) : c.id = 2

\* what load returns for the user of turn t is what the turn returned
Persisted(t) ==
    \A r \in load_conversation(turn[t].username) :
        r.status = 200 /\ r.messages = turn[t].out_history

SaveGaveUp(t) == save[t].pc \in {"failed", "not_started"}

\* the turn has been answered with success and its save has not returned
SavePending(t) ==
    /\ turn[t].status = 200
    /\ user_rows(turn[t].username) # {}
    /\ save[t].pc \in {"start", "selected", "deleted", "inserted"}

\* C2: after a turn of a registered user is answered with success, unless its
\* save fails, a state follows in which load returns exactly the history the
\* turn returned; and load keeps returning it until the next write to that
\* user's conversations.
C2_SavedHistoryIsLoaded ==
    /\ \A t \in Turns :
           SavePending(t) ~> (Persisted(t) \/ SaveGaveUp(t))
    /\ [](\A t \in Turns :
             (/\ Committed(t)
              /\ UserLog(save[t].user_id) # <<>>
              /\ UserLog(save[t].user_id)[Len(UserLog(save[t].user_id))] =
                     LogEntry("save", save[t].user_id, t))
             => Persisted(t))

C2_Witness ==
    \E t \in Turns :
        /\ Committed(t) /\ Persisted(t)
        /\ turn[t].username = alice
        /\ Len(turn[t].out_history) = 2
        /\ resp.op = "load" /\ resp.messages = turn[t].out_history

-----------------------------------------------------------------------------
(* C7, over every public operation.                                        *)

\* the user saved a conversation, cleared, and saved a new one
StartedAnew(user_id) ==
    LET log == UserLog(user_id)
        n == Len(log)
    IN  /\ n >= 3
        /\ log[n - 2].kind = "save" /\ log[n - 1].kind = "clear"
        /\ log[n].kind = "save"

\* C7 as stated, on the sequence the specification names (a new conversation
\* started after clearing): the user then owns two or more rows, which list
\* returns together.
C7_NewConversationCoexists ==
    \A u \in users :
        StartedAnew(u.id) =>
            /\ Cardinality(UserRows(conversations, u.id)) >= 2
            /\ \A r \in list_conversations(u.username) :
                   Len(r.conversations) >= 2

\* C7, amended: after any sequence of register, login, chat turns, clear,
\* list, select and delete, list returns at most one conversation for a user.
C7_ListReturnsAtMostOne ==
    \A u \in users :
        \A r \in list_conversations(u.username) : Len(r.conversations) <= 1

C7_Witness ==
    \E u \in users :
        /\ StartedAnew(u.id)
        /\ resp.op = "list" /\ Len(resp.conversations) = 1
        /\ \E s \in AuthSlots : auth[s].op = "login" /\ auth[s].status = 200

-----------------------------------------------------------------------------
(* C10, over registration and login.                                       *)

\* request s registers a username that no row and no earlier request holds
Unregistered(s) ==
    /\ strip(auth[s].req_username) \notin {r.username : r \in InitUsers}
    /\ \A k \in 1..(s - 1) :
           strip(auth[k].req_username) # strip(auth[s].req_username)

\* request s + 1 logs in with the credentials request s registered
RegisterThenLogin(s) ==
    /\ s + 1 \in AuthSlots
    /\ auth[s].op = "register" /\ auth[s].pc = "done"
    /\ auth[s + 1].op = "login" /\ auth[s + 1].pc = "done"
    /\ auth[s + 1].req_username = auth[s].req_username
    /\ auth[s + 1].req_password = auth[s].req_password

\* C10: for every non-empty username not yet registered and every password
\* whose length is at least the configured minimum, register followed by
\* login with the same credentials succeeds, and login reports
\* has_conversations false and is_new_user true.
C10_RegisterThenLoginSucceeds ==
    \A s \in AuthSlots :
        (/\ RegisterThenLogin(s)
         /\ auth[s].req_username # <<>>
         /\ Unregistered(s)
         /\ Len(auth[s].req_password) >= config)
        => /\ auth[s].status = 200
           /\ auth[s + 1].status = 200
           /\ ~auth[s + 1].has_conversations
           /\ auth[s + 1].is_new_user

-----------------------------------------------------------------------------
(* C11, C12 and C14, over registration and login by one client.            *)

\* what the caller of login or register receives
Response(a) ==
    [status |-> a.status, error |-> a.error,
     has_conversations |-> a.has_conversations, is_new_user |-> a.is_new_user]

\* a finished login that supplied both a username and a password
LoginDone(s) ==
    /\ auth[s].op = "login" /\ auth[s].pc = "done"
    /\ auth[s].username # <<>> /\ auth[s].password # <<>>

\* no row holds the username now, so none did when the login ran
UnknownUser(s) == LoginDone(s) /\ user_rows(auth[s].username) = {}

\* the login was refused although a row holds the username
WrongPassword(s) ==
    /\ LoginDone(s) /\ auth[s].status # 200
    /\ \E r \in user_rows(auth[s].username) :
           r.password_hash # hash_password(auth[s].password)

\* C11: the response of a login with an unknown username and the response of
\* a login with a known username and a wrong password are the same response
\* (status and body), and it is a failure.
C11_LoginFailuresIndistinguishable ==
    \A s1, s2 \in AuthSlots :
        (UnknownUser(s1) /\ WrongPassword(s2))
            => /\ Response(auth[s1]) = Response(auth[s2])
               /\ auth[s1].status = 401

C11_Witness ==
    \E s1, s2 \in AuthSlots :
        /\ UnknownUser(s1) /\ WrongPassword(s2)
        /\ auth[s1].username = alice /\ auth[s2].username = carol

\* a finished login of the legacy account
LegacyLogin(s) ==
    /\ auth[s].op = "login" /\ auth[s].pc = "done"
    /\ auth[s].username = legacy_user.username

\* the first login of the legacy account that succeeded
FirstLegacyLogin(s) ==
    /\ LegacyLogin(s) /\ auth[s].status = 200
    /\ \A k \in 1..(s - 1) : ~(LegacyLogin(k) /\ auth[k].status = 200)

LegacyHash == (CHOOSE r \in users : r.id = legacy_user.id).password_hash

\* C12 as stated, on the passwords as supplied: the first successful login
\* of the legacy account stores the hash of the supplied password, and every
\* later login of it with a different supplied password fails with 401.
C12_LegacyLoginFixesSuppliedPassword ==
    \A s \in AuthSlots :
        FirstLegacyLogin(s) =>
            /\ LegacyHash = hash_password(auth[s].req_password)
            /\ \A k \in AuthSlots :
                   (/\ k > s /\ LegacyLogin(k)
                    /\ auth[k].req_password # auth[s].req_password)
                   => auth[k].status = 401

\* C12, amended: the first successful login of the legacy account stores the
\* hash of the supplied password with surrounding whitespace stripped, and
\* every later login of it whose stripped password is different fails: with
\* 401 and the invalid-credentials message, or with 400 when it strips to
\* nothing.
C12_LegacyLoginFixesStrippedPassword ==
    \A s \in AuthSlots :
        FirstLegacyLogin(s) =>
            /\ LegacyHash = hash_password(strip(auth[s].req_password))
            /\ \A k \in AuthSlots :
                   (/\ k > s /\ LegacyLogin(k)
                    /\ strip(auth[k].req_password) # strip(auth[s].req_password))
                   => IF strip(auth[k].req_password) = <<>>
                      THEN auth[k].status = 400
                      ELSE /\ auth[k].status = 401
                           /\ auth[k].error = "Invalid username or password"

C12_Witness ==
    \E s, k \in AuthSlots :
        /\ FirstLegacyLogin(s) /\ k > s /\ LegacyLogin(k)
        /\ auth[s].req_password = padded(short)
        /\ auth[k].req_password = secret
        /\ auth[k].status = 401
        /\ LegacyHash = hash_password(short)

\* a finished register that supplied both a username and a password
RegisterDone(s) ==
    /\ auth[s].op = "register" /\ auth[s].pc = "done"
    /\ auth[s].username # <<>> /\ auth[s].password # <<>>

WeakPassword(s) ==
    auth[s].status = 400 /\ auth[s].error = "Password must be at least 4 characters"

\* C14: register fails with the weak-password error exactly when the length
\* of the supplied password is below the configured minimum
\* (security.password_min_length), and a register that fails leaves the users
\* table unchanged.
C14_WeakPasswordBelowConfiguredMinimum ==
    /\ [](\A s \in AuthSlots :
             RegisterDone(s) =>
                 (WeakPassword(s) <=> Len(auth[s].req_password) < config))
    /\ [][\A s \in AuthSlots :
             (auth'[s].op = "register" /\ auth'[s].pc = "done"
              /\ auth[s].pc # "done" /\ auth'[s].status # 200)
             => users' = users]_vars

-----------------------------------------------------------------------------
(* C13 and C15, over concurrent registration and login.                    *)

\* C13: of two logins of the legacy account with two different passwords, in
\* any interleaving, at most one succeeds, and the hash stored afterwards is
\* the hash of the password of the one that succeeded.
C13_LegacyMigrationOnce ==
    \A s1, s2 \in AuthSlots :
        (/\ s1 # s2 /\ LegacyLogin(s1) /\ LegacyLogin(s2)
         /\ auth[s1].password # auth[s2].password)
        => /\ ~(auth[s1].status = 200 /\ auth[s2].status = 200)
           /\ auth[s1].status = 200
                  => LegacyHash = hash_password(auth[s1].password)

AlreadyExists(s) ==
    auth[s].status = 400 /\ auth[s].error = "Username already exists"

\* C15: register on a username that is present fails with the
\* already-exists error (400) and leaves the row's hash as it was; of two
\* registers of one new username, in any interleaving, exactly one succeeds
\* and the other fails with the already-exists error; no two rows of users
\* hold one username.
C15_RegisterIsExclusive ==
    /\ \A s \in AuthSlots, r \in InitUsers :
           (RegisterDone(s) /\ auth[s].username = r.username)
               => AlreadyExists(s) /\ r \in users
    /\ \A s1, s2 \in AuthSlots :
           (/\ s1 # s2 /\ RegisterDone(s1) /\ RegisterDone(s2)
            /\ auth[s1].username = auth[s2].username
            /\ auth[s1].username \notin {r.username : r \in InitUsers})
           => \/ auth[s1].status = 200 /\ AlreadyExists(s2)
              \/ auth[s2].status = 200 /\ AlreadyExists(s1)
    /\ \A r1, r2 \in users : r1.username = r2.username => r1 = r2

-----------------------------------------------------------------------------
(* C16, C17 and C18, over two users' turns and store requests.             *)

\* the rows with this id that the named user owns
Owned(u, conversation_id) ==
    {c \in conversations :
        /\ c.id = conversation_id
        /\ \E r \in users : r.username = strip(u) /\ r.id = c.user_id}

\* a row with this id that another user owns
Foreign_row(u, conversation_id) ==
    \E c \in conversations :
        /\ c.id = conversation_id
        /\ \E r \in users : r.username # strip(u) /\ r.id = c.user_id

\* this step answers a request of the kind op that names a conversation
Answers(op) ==
    /\ resp'.n = resp.n + 1
    /\ resp'.op = op
    /\ resp'.conversation_id # 0

\* C16: delete with an id of a conversation that another user owns, or that
\* nobody owns, answers not-found (404) and removes no row; with an id the
\* user owns it removes exactly that row and leaves every other row as it
\* was.
C16_DeleteOnlyOwnRow ==
    [][Answers("delete") =>
          LET own == Owned(resp'.username, resp'.conversation_id)
          IN  IF own = {}
              THEN resp'.status = 404 /\ conversations' = conversations
              ELSE /\ resp'.status = 200
                   /\ Cardinality(own) = 1
                   /\ conversations' = conversations \ own]_vars

C16_Witness ==
    /\ resp.op = "delete" /\ resp.status = 404 /\ resp.username = alice
    /\ Foreign_row(alice, resp.conversation_id)
    /\ \E i \in DOMAIN writeLog : writeLog[i].kind = "delete"

\* C17: select returns the messages of the conversation when the named user
\* owns it; for an id that another user owns, or nobody, it answers not-found
\* (404) without messages; in both cases the tables are unchanged.
C17_SelectOnlyOwnRow ==
    [][Answers("select") =>
          LET own == Owned(resp'.username, resp'.conversation_id)
          IN  /\ IF own = {}
                 THEN resp'.status = 404 /\ resp'.messages = <<>>
                 ELSE /\ resp'.status = 200
                      /\ \E c \in own :
                             resp'.messages = json_loads(c.messages)
              /\ conversations' = conversations
              /\ users' = users]_vars

C17_Witness ==
    /\ resp.op = "select" /\ resp.status = 404 /\ resp.username = alice
    /\ Foreign_row(alice, resp.conversation_id)
    /\ UserRows(conversations, 1) # {}

\* C18: a step that changes the conversations table is one write made for
\* one user (a save committing, a clear, a delete), and it adds, removes and
\* modifies no row of any other user.
C18_WritesTouchOwnRowsOnly ==
    [][conversations' # conversations =>
          /\ Len(writeLog') = Len(writeLog) + 1
          /\ LET e == writeLog'[Len(writeLog')]
             IN  \A c \in conversations \cup conversations' :
                     c.user_id # e.user_id
                         => c \in conversations /\ c \in conversations']_vars

C18_Witness ==
    /\ resp.op = "clear" /\ resp.username = alice
    /\ UserRows(conversations, 2) # {}
    /\ \E i \in DOMAIN writeLog :
           /\ i > 1
           /\ writeLog[i] = LogEntry("clear", 1, 0)
           /\ writeLog[i - 1].kind = "save" /\ writeLog[i - 1].user_id = 1

-----------------------------------------------------------------------------
(* C19, over one user's turns, clears, lists, loads and logins.            *)

\* the last committed write to the user's conversations is a clear
Cleared(user_id) ==
    /\ UserLog(user_id) # <<>>
    /\ UserLog(user_id)[Len(UserLog(user_id))].kind = "clear"

\* C19: clear answers success, and from then until the next write to the
\* user's conversations the user owns no conversation: list answers an empty
\* sequence, load answers no messages and no timestamp, and login reports
\* has_conversations false.
C19_ClearLeavesNothing ==
    /\ resp.op = "clear" /\ strip(resp.username) # <<>> => resp.status = 200
    /\ \A r \in users :
           Cleared(r.id) =>
               /\ UserRows(conversations, r.id) = {}
               /\ \A x \in list_conversations(r.username) :
                      x.status = 200 /\ x.conversations = <<>>
               /\ \A x \in load_conversation(r.username) :
                      x.status = 200 /\ x.messages = <<>> /\ x.updated_at = NoTime
               /\ ~login_count_step([IdleAuth EXCEPT !.user_id = r.id]).has_conversations
               /\ resp.op = "list" /\ resp.username = r.username
                      => resp.conversations = <<>>
               /\ resp.op = "load" /\ resp.username = r.username
                      => resp.messages = <<>>

C19_Witness ==
    /\ Cleared(1)
    /\ \E i \in DOMAIN writeLog : writeLog[i].kind = "save" /\ writeLog[i].user_id = 1
    /\ resp.op = "list" /\ resp.username = alice /\ resp.conversations = <<>>
    /\ \E s, k \in AuthSlots :
           /\ s < k
           /\ auth[s].pc = "done" /\ auth[s].has_conversations
           /\ auth[k].pc = "done" /\ auth[k].status = 200
           /\ ~auth[k].has_conversations

-----------------------------------------------------------------------------
(* C20, with every prior history empty, returned by an earlier turn, or    *)
(* answered by load.                                                       *)

Alternates(history) ==
    /\ Len(history) % 2 = 0
    /\ \A i \in DOMAIN history :
           history[i].role = IF i % 2 = 1 THEN "user" ELSE "assistant"

\* C20: every persisted conversation holds an even number of messages whose
\* roles alternate user, assistant, user, assistant, ...
C20_PersistedHistoriesAlternate ==
    \A c \in conversations : Alternates(json_loads(c.messages))

C20_Witness ==
    /\ \E c \in conversations : Len(json_loads(c.messages)) = 4
    /\ resp.op = "load" /\ Len(resp.messages) = 2

-----------------------------------------------------------------------------
(* chat_client.py: the terminal client of one logged-in user.  A request  *)
(* is in flight from the step that sends it to the step in which the      *)
(* server's handler receives it; the client waits for one answer at a     *)
(* time.                                                                   *)

\* the requests that reached the server, and the slot of the client's last one
Delivered == Cardinality({t \in Turns : turn[t].pc # "idle"})
Serving == client.sent - client.lost
InFlight == client.pc = "waiting" /\ Delivered < Serving
Pending == client.pc = "waiting" /\ Delivered = Serving

\* chat_server.py lines 574-579 and the error returns: the JSON body of the
\* answer to a turn
chat_response(tr) ==
    [status_code |-> tr.status, success |-> tr.status = 200,
     response |-> tr.response, conversation_history |-> tr.out_history]

\* the client sending the same request again after a failure
client_response_step_retry(c, response) ==
    IF response.status_code = 200 /\ response.success
    THEN [c EXCEPT !.pc = "input", !.result = "reply",
                   !.conversation_history = response.conversation_history]
    ELSE [c EXCEPT !.pc = "waiting", !.sent = @ + 1, !.result = "error"]

\* the client taking the history of every answer it gets
client_response_step_any_status(c, response) ==
    [c EXCEPT !.pc = "input",
              !.result = IF response.status_code = 200 THEN "reply"
                         ELSE "error",
              !.conversation_history = response.conversation_history]

\* lines 486-487 and 494-503: no request without a user; else one POST
client_chat_step(c, prompt) ==
    IF c.current_user = <<>>
    THEN [c EXCEPT !.prompts = @ + 1, !.prompt = prompt, !.result = "no_user"]
    ELSE [c EXCEPT !.prompts = @ + 1, !.prompt = prompt, !.result = "none",
                   !.pc = "waiting", !.sent = @ + 1]

\* lines 510-522: the history is replaced on 200 with success only
client_response_step(c, response) ==
    IF response.status_code = 200
    THEN IF response.success
         THEN [c EXCEPT !.pc = "input", !.result = "reply",
                        !.conversation_history = response.conversation_history]
         ELSE [c EXCEPT !.pc = "input", !.result = "error"]
    ELSE IF response.status_code = 503
    THEN [c EXCEPT !.pc = "input", !.result = "offline"]
    ELSE IF response.status_code = 504
    THEN [c EXCEPT !.pc = "input", !.result = "timeout"]
    ELSE [c EXCEPT !.pc = "input", !.result = "error"]

\* lines 626 and 482-503: the prompt read by the main loop goes to chat()
ClientChat(prompt) ==
    /\ client.pc = "input"
    /\ client.sent < MaxTurns
    /\ client' = client_chat_step(client, prompt)
    /\ UNCHANGED <<config, users, nextUserId, conversations, nextConvId, txn,
                   now, turn, save, auth, resp, writeLog>>

\* lines 505-522: the answer of the server arrives
ClientResponse ==
    /\ Pending
    /\ turn[Serving].pc = "done"
    /\ client' = client_response_step(client, chat_response(turn[Serving]))
    /\ UNCHANGED <<config, users, nextUserId, conversations, nextConvId, txn,
                   now, turn, save, auth, resp, writeLog>>

\* lines 524-528: the request never reached the server
ClientConnectionError ==
    /\ InFlight
    /\ client' = [client EXCEPT !.pc = "input", !.result = "connection",
                                !.lost = @ + 1]
    /\ UNCHANGED <<config, users, nextUserId, conversations, nextConvId, txn,
                   now, turn, save, auth, resp, writeLog>>

\* the timeout of the client ending the handler on the server
ClientTimeoutCancels ==
    /\ Pending
    /\ client' = [client EXCEPT !.pc = "input", !.result = "timeout",
                                !.abandoned = @ \cup {Serving}]
    /\ turn' = [turn EXCEPT ![Serving].pc =
                    IF @ = "done" THEN "done" ELSE "cancelled"]
    /\ UNCHANGED <<config, users, nextUserId, conversations, nextConvId, txn,
                   now, save, auth, resp, writeLog>>

\* lines 503 and 529-533: no answer within the client's timeout; the client
\* stops waiting, the server's handler is not told
ClientTimeout ==
    /\ Pending
    /\ client' = [client EXCEPT !.pc = "input", !.result = "timeout",
                                !.abandoned = @ \cup {Serving}]
    /\ UNCHANGED <<config, users, nextUserId, conversations, nextConvId, txn,
                   now, turn, save, auth, resp, writeLog>>

\* lines 554-555 and 278-286: the command "clear" posts the clear request;
\* history: the turns answered 200 by then
ClientClearSend ==
    /\ client.pc = "input"
    /\ resp.n < MaxStoreOps
    /\ client' = [client EXCEPT
                     !.pc = "clearing", !.ticket = resp.n, !.cleared = FALSE,
                     !.replied = {t \in Turns : turn[t].pc = "done"
                                                 /\ turn[t].status = 200}]
    /\ UNCHANGED <<config, users, nextUserId, conversations, nextConvId, txn,
                   now, turn, save, auth, resp, writeLog>>

\* lines 288-293 and 555-560: the history is emptied when the server cleared
ClientClearDone ==
    /\ client.pc = "clearing"
    /\ resp.n > client.ticket
    /\ client' = IF resp.status = 200
                 THEN [client EXCEPT !.pc = "input", !.cleared = TRUE,
                                     !.conversation_history = <<>>]
                 ELSE [client EXCEPT !.pc = "input"]
    /\ UNCHANGED <<config, users, nextUserId, conversations, nextConvId, txn,
                   now, turn, save, auth, resp, writeLog>>

\* the client after show_conversation_menu(): alice logged in, no conversation
InitClient ==
    /\ config = password_min_length
    /\ users = {new_user(1, alice, secret), new_user(2, bob, other)}
    /\ nextUserId = 3
    /\ conversations = {}
    /\ nextConvId = 1
    /\ txn = NoTxn
    /\ now = 0
    /\ turn = [t \in Turns |-> IdleTurn]
    /\ save = [t \in Turns |-> IdleSave]
    /\ auth = [s \in AuthSlots |-> IdleAuth]
    /\ resp = NoResp
    /\ writeLog = <<>>
    /\ client = [IdleClient EXCEPT !.current_user = alice]

ClientNext ==
    \/ \E prompt \in {hi, blank} : ClientChat(prompt)
    \/ \E t \in Turns :
           InFlight /\ ChatRecv(t, client.current_user, client.prompt,
                                client.conversation_history)
    \/ \E t \in Turns, o \in {Online, NetOutcome("refused")} : ChatProbe(t, o)
    \/ \E t \in Turns, o \in {Completed(hello), HttpOutcome(500, TRUE, <<>>),
                                NetOutcome("timeout")} :
           ChatComplete(t, o, TRUE)
    \/ Saving
    \/ ClientResponse
    \/ ClientConnectionError
    \/ ClientTimeout
    \/ ClientClearSend
    \/ /\ client.pc = "clearing" /\ resp.n = client.ticket
       /\ ClearConversation(client.current_user)
    \/ ClientClearDone

\* Concurrent turns of a registered user and of a username that has no
\* users row, with the backend answering or failing.
GuestNext ==
    \/ \E t \in Turns, u \in {alice, carol}, H \in {<<>>} \cup Returned :
           ChatRecv(t, u, hi, H)
    \/ \E t \in Turns : ChatProbe(t, Online)
    \/ \E t \in Turns, o \in {Completed(hello), HttpOutcome(500, TRUE, <<>>)},
          started \in BOOLEAN :
           ChatComplete(t, o, started)
    \/ Saving

GuestSpec == Init /\ [][GuestNext]_vars

\* Concurrent turns with every outcome of the two backend calls.  Each call
\* answers or hits its timeout (3 s for the probe, 180 s for the completion),
\* so a handler that waits for the backend goes on; nothing is assumed of
\* the save threads.
AnswerNext ==
    \/ \E t \in Turns, u \in {alice, blank}, H \in {<<>>} \cup Returned :
           ChatRecv(t, u, hi, H)
    \/ \E t \in Turns, o \in ProbeOutcomes \cup {NetOutcome("timeout")} :
           ChatProbe(t, o)
    \/ \E t \in Turns, o \in CompletionOutcomes, started \in BOOLEAN :
           ChatComplete(t, o, started)
    \/ Saving

AnswerSpec ==
    /\ Init
    /\ [][AnswerNext]_vars
    /\ \A t \in Turns :
           WF_vars(\E o \in ProbeOutcomes \cup {NetOutcome("timeout")} :
                      ChatProbe(t, o))
    /\ \A t \in Turns :
           WF_vars(\E o \in CompletionOutcomes, started \in BOOLEAN :
                      ChatComplete(t, o, started))

ClientSpec == InitClient /\ [][ClientNext]_vars

\* The client and the server when the backend answers: a handler thread
\* runs on whether or not the client still waits, and a started save thread
\* is scheduled until it returns.
ClientLiveNext ==
    \/ ClientChat(hi)
    \/ \E t \in Turns :
           InFlight /\ ChatRecv(t, client.current_user, client.prompt,
                                client.conversation_history)
    \/ \E t \in Turns : ChatProbe(t, Online)
    \/ \E t \in Turns : ChatComplete(t, Completed(hello), TRUE)
    \/ Saving
    \/ ClientResponse
    \/ ClientTimeout

ClientLiveSpec ==
    /\ InitClient
    /\ [][ClientLiveNext]_vars
    /\ \A t \in Turns : WF_vars(ChatProbe(t, Online))
    /\ \A t \in Turns : WF_vars(ChatComplete(t, Completed(hello), TRUE))
    /\ \A t \in Turns : WF_vars(SaveStep(t))

-----------------------------------------------------------------------------
(* The read endpoints over the tables the schema admits.                   *)

Filled(n) == [i \in 1..n |-> "x"]

\* conversations as stored: empty, without a user message, with a first user
\* message of 51 and of 50 characters, and one of seven messages
Stored ==
    {<<>>,
     Foreign,
     <<Msg("assistant", yo), Msg("user", Filled(TitleMax + 1)),
       Msg("user", hi)>>,
     <<Msg("user", Filled(TitleMax)), Msg("assistant", Filled(PreviewMax + 1))>>,
     <<Msg("user", hi), Msg("assistant", Filled(PreviewMax)), Msg("user", yo),
       Msg("assistant", hello), Msg("system", hi), Msg("assistant", yo),
       Msg("user", Filled(PreviewMax + 1))>>}

\* lines 167-175: a user may hold any number of rows; here alice (id 1) holds
\* rows 1 and 2 at most, bob (id 2) row 3
StoredRows(id, user_id) ==
    {[id |-> id, user_id |-> user_id, messages |-> json_dumps(h),
      updated_at |-> c] : h \in Stored, c \in 0..MaxClock}

Tables ==
    {one \cup two \cup three :
        one \in {{}} \cup {{r} : r \in StoredRows(1, 1)},
        two \in {{}} \cup {{r} : r \in StoredRows(2, 1)},
        three \in {{}} \cup {{r} : r \in StoredRows(3, 2)}}

InitStored ==
    /\ config = password_min_length
    /\ users = {new_user(1, alice, secret), new_user(2, bob, other)}
    /\ nextUserId = 3
    /\ conversations \in Tables
    /\ nextConvId = 4
    /\ txn = NoTxn
    /\ now = MaxClock
    /\ turn = [t \in Turns |-> IdleTurn]
    /\ save = [t \in Turns |-> IdleSave]
    /\ auth = [a \in AuthSlots |-> IdleAuth]
    /\ resp = NoResp
    /\ writeLog = <<>>
    /\ client = IdleClient

ReadNext ==
    \/ \E u \in {alice, bob} : ListConversations(u)
    \/ \E u \in {alice, carol, blank} : LoadConversation(u)
    \/ \E u \in {alice, carol, blank} : ConversationSummary(u)
    \/ \E op \in {"load", "list", "select", "delete", "clear"} :
           StorageError(op, alice, IF NamesConversation(op) THEN 1 ELSE 0)

ReadSpec == InitStored /\ [][ReadNext]_vars

-----------------------------------------------------------------------------
(* Validation, the save's outcome and the backend's outcomes: C21..C24.     *)

\* empty, or made of spaces only
Whitespace(s) == \A i \in 1..Len(s) : s[i] = sp

Received(t) == turn[t].pc # "idle"

Invalid(t) ==
    Received(t) /\ (Whitespace(turn[t].req.username)
                        \/ Whitespace(turn[t].req.message))

C21_Rejected(t) ==
    Invalid(t) =>
        /\ turn[t].pc = "done"
        /\ turn[t].status = 400
        /\ turn[t].online = "unknown"
        /\ ~turn[t].posted
        /\ save[t].pc = "none"

C21_Step(t) ==
    (turn[t].pc = "idle" /\ turn'[t].pc # "idle" /\ turn'[t].status = 400) =>
        StoreUntouched /\ save' = save

\* C21: a chat request whose username or message is empty or only spaces
\* is answered 400 in the step that receives it: the backend is neither
\* probed nor called, no save is started then or later, and the step
\* leaves the database unchanged.
C21_BlankFieldsRejectedFirst ==
    /\ [](\A t \in Turns : C21_Rejected(t))
    /\ [][\A t \in Turns : C21_Step(t)]_vars

C21_Witness ==
    \E t \in Turns :
        /\ turn[t].req.message = blank
        /\ turn[t].req.username = alice
        /\ turn[t].status = 400
        /\ conversations # {}

\* what the 200 answer of turn t holds: reply, updated history, saved flag
Answer(t) ==
    [status |-> turn[t].status, response |-> turn[t].response,
     conversation_history |-> turn[t].out_history, saved |-> turn[t].saved]

C22_Answer(t) ==
    turn[t].outcome = Completed(turn[t].outcome.content) =>
        /\ turn[t].pc = "done"
        /\ Answer(t) =
               [status |-> 200, response |-> turn[t].outcome.content,
                conversation_history |->
                    append_exchange(Supplied(t), turn[t].message,
                                    turn[t].outcome.content),
                saved |-> TRUE]

C22_Step(t) ==
    /\ turn[t].pc = "done" => turn'[t] = turn[t]
    /\ (turn[t].pc = "await" /\ turn'[t].status = 200) =>
           /\ save'[t].pc \in {"start", "not_started"}
           /\ StoreUntouched

\* C22: a turn whose completion succeeded is answered 200 with the reply,
\* the updated history and saved = true, fixed by the request and the
\* backend's reply alone; the answer is given in the step that starts (or
\* fails to start) the save thread, before any write, and no later step,
\* whether the save commits, fails or never runs, changes it.
C22_SaveOutcomeNeverSurfaces ==
    /\ [](\A t \in Turns : C22_Answer(t))
    /\ [][\A t \in Turns : C22_Step(t)]_vars

C22_Witness ==
    \E t1, t2 \in Turns :
        /\ save[t1].pc = "committed"
        /\ save[t2].pc = "failed"
        /\ Supplied(t1) = Supplied(t2)
        /\ turn[t1].req.message = turn[t2].req.message
        /\ Answer(t1) = Answer(t2)
        /\ Answer(t1).status = 200

Probed(t) == turn[t].probed # NetOutcome("none")

\* C23: the probe reports online for every HTTP response, whatever its
\* status code, and offline only when the request failed on the network
\* (refused connection, timeout).
C23_AnyResponseIsOnline ==
    \A t \in Turns : Probed(t) =>
        (turn[t].online = "online" <=> turn[t].probed.net = "ok")

Completion(t) == turn[t].outcome

\* C24: a completion call that gets a status outside 2xx is answered 500,
\* one that times out 504, and one whose connection fails 503, also when
\* the probe of the same turn had succeeded.
C24_CompletionFailuresMapped ==
    \A t \in Turns : turn[t].online = "online" /\ turn[t].pc = "done" =>
        /\ (Completion(t).net = "ok" /\ Completion(t).status \notin 200..299)
               => turn[t].status = 500
        /\ Completion(t).net = "timeout" => turn[t].status = 504
        /\ Completion(t).net = "refused" => turn[t].status = 503

-----------------------------------------------------------------------------
(* The read endpoints: C25..C29.                                           *)

Listed == resp.op = "list" /\ resp.status = 200

\* the rows whose user_id is the id of the user the request names
RowsOfRequester ==
    {c \in conversations :
        \E u \in users : u.username = strip(resp.username) /\ c.user_id = u.id}

\* C25: a list answer has one entry for each conversation of the named
\* user and no other entry, no entry has a later updated_at than an entry
\* before it, and each entry's message_count is the number of messages of
\* its conversation.
C25_ListIsOwnedOrderedCounted ==
    Listed =>
        /\ Len(resp.conversations) = Cardinality(RowsOfRequester)
        /\ {resp.conversations[i].id : i \in DOMAIN resp.conversations}
               = {c.id : c \in RowsOfRequester}
        /\ \A i, j \in DOMAIN resp.conversations :
               i < j => resp.conversations[i].updated_at
                           >= resp.conversations[j].updated_at
        /\ \A i \in DOMAIN resp.conversations :
               \E c \in RowsOfRequester :
                   /\ c.id = resp.conversations[i].id
                   /\ c.updated_at = resp.conversations[i].updated_at
                   /\ resp.conversations[i].message_count
                          = Len(json_loads(c.messages))

C25_Witness ==
    /\ Listed
    /\ Len(resp.conversations) = 2
    /\ resp.conversations[1].updated_at > resp.conversations[2].updated_at
    /\ resp.conversations[1].message_count
           < resp.conversations[2].message_count
    /\ conversations # RowsOfRequester

\* the conversation a list entry stands for
RowOf(entry) == CHOOSE c \in conversations : c.id = entry.id

UserMessages(messages) ==
    {i \in DOMAIN messages : messages[i].role = "user"}

FirstUserContent(messages) ==
    messages[CHOOSE i \in UserMessages(messages) :
                \A j \in UserMessages(messages) : i <= j].content

C26_Title(entry, messages) ==
    IF UserMessages(messages) = {}
    THEN entry.title = EmptyTitle /\ entry.title # <<>>
    ELSE LET content == FirstUserContent(messages)
         IN  /\ Len(content) <= TitleMax => entry.title = content
             /\ Len(content) > TitleMax =>
                    /\ Len(entry.title) = TitleMax + Len(Ellipsis)
                    /\ \A i \in 1..TitleMax : entry.title[i] = content[i]
                    /\ \A i \in 1..Len(Ellipsis) :
                           entry.title[TitleMax + i] = Ellipsis[i]

\* C26: the title of a list entry is the content of the first user message
\* of its conversation, unchanged when that has at most 50 characters, else
\* its first 50 characters followed by the ellipsis; a conversation without
\* a user message gets the placeholder, which is not the empty string.
C26_TitleFromFirstUserMessage ==
    Listed =>
        \A i \in DOMAIN resp.conversations :
            C26_Title(resp.conversations[i],
                      json_loads(RowOf(resp.conversations[i]).messages))

C26_Witness ==
    /\ Listed
    /\ \E i, j \in DOMAIN resp.conversations :
           /\ resp.conversations[i].title = EmptyTitle
           /\ resp.conversations[i].message_count > 0
           /\ Len(resp.conversations[j].title) = TitleMax + Len(Ellipsis)
           /\ json_loads(RowOf(resp.conversations[j]).messages)[1].role
                  = "assistant"

LoadAnswered == resp.op = "load" /\ resp.status = 200

C27_Answer ==
    LoadAnswered =>
        IF RowsOfRequester = {}
        THEN resp.messages = <<>> /\ resp.updated_at = NoTime
        ELSE \E c \in RowsOfRequester :
                /\ \A d \in RowsOfRequester : d.updated_at <= c.updated_at
                /\ resp.messages = json_loads(c.messages)
                /\ resp.updated_at = c.updated_at

C27_Step == (resp' # resp /\ resp'.op = "load") => StoreUntouched

\* C27: a load answers with the messages and timestamp of a conversation of
\* the named user that has the greatest updated_at, with no messages and no
\* timestamp when the user holds no conversation or does not exist, and the
\* step leaves every table as it was.
C27_LoadReturnsLatest ==
    /\ []C27_Answer
    /\ [][C27_Step]_vars

C27_Witness ==
    /\ LoadAnswered
    /\ resp.messages # <<>>
    /\ \E c \in RowsOfRequester :
           /\ c.updated_at < resp.updated_at
           /\ json_loads(c.messages) # resp.messages

StorePaths == {"load", "list", "select", "delete", "clear"}

\* C28: when the database raises inside load, list, select, delete or
\* clear, the answer has status 500 and carries no messages, no timestamp
\* and no conversation list.
C28_StorageErrorIsAnError ==
    (resp.raised /\ resp.op \in StorePaths) =>
        /\ resp.status = 500
        /\ resp.messages = <<>>
        /\ resp.updated_at = NoTime
        /\ resp.conversations = <<>>

C28_Witness ==
    /\ resp.raised
    /\ resp.op = "delete"
    /\ resp.status = 500
    /\ \E c \in RowsOfRequester : c.id = resp.conversation_id

SummaryAnswered == resp.op = "summary" /\ resp.status = 200

Shown(count) == IF count < PreviewCount THEN count ELSE PreviewCount

Cut(content) ==
    IF Len(content) <= PreviewMax THEN content
    ELSE [i \in 1..(PreviewMax + Len(Ellipsis)) |->
             IF i <= PreviewMax THEN content[i] ELSE Ellipsis[i - PreviewMax]]

Label(role) == IF role = "user" THEN "You" ELSE "AI"

\* the summary answers for row c, with roles passed through Relabel
SummaryOf(c, Relabel(_)) ==
    LET messages == json_loads(c.messages)
        count == Len(messages)
    IN  /\ resp.total_messages = count
        /\ resp.timestamp = c.updated_at
        /\ Len(resp.preview_messages) = Shown(count)
        /\ \A i \in 1..Shown(count) :
               LET msg == messages[count - Shown(count) + i]
               IN  /\ resp.preview_messages[i].role = Relabel(msg.role)
                   /\ resp.preview_messages[i].content = Cut(msg.content)

SummaryIs(Relabel(_)) ==
    SummaryAnswered =>
        IF RowsOfRequester = {}
        THEN resp.total_messages = 0 /\ resp.preview_messages = <<>>
        ELSE \E c \in RowsOfRequester :
                /\ \A d \in RowsOfRequester : d.updated_at <= c.updated_at
                /\ SummaryOf(c, Relabel)

\* C29 as stated: the summary of the latest conversation reports its full
\* message count and, as preview, its last min(6, count) messages in order,
\* each as stored except that a content longer than 100 characters is cut
\* to its first 100 characters plus the marker; without a conversation it
\* reports 0 messages and an empty preview.
C29_PreviewIsLastMessages == SummaryIs(LAMBDA role : role)

\* C29 amended: the same, except that each preview entry carries the role
\* "You" for a user message and "AI" for a message of any other role.
C29_PreviewIsLastMessagesRelabelled == SummaryIs(Label)

C29_Witness ==
    /\ SummaryAnswered
    /\ resp.total_messages > PreviewCount
    /\ Len(resp.preview_messages) = PreviewCount
    /\ \E i \in DOMAIN resp.preview_messages :
           Len(resp.preview_messages[i].content) = PreviewMax + Len(Ellipsis)
    /\ \E i \in DOMAIN resp.preview_messages :
           resp.preview_messages[i].content = Filled(PreviewMax)
    /\ \E c \in RowsOfRequester : c.updated_at < resp.timestamp

-----------------------------------------------------------------------------
(* The order of one turn's steps: C30.                                     *)

SaveStarted(t) == save[t].pc \notin {"none", "not_started"}

SaveCommits(t) ==
    {i \in DOMAIN writeLog :
        writeLog[i].kind = "save" /\ writeLog[i].turn = t}

TurnOrder ==
    {<<"idle", "probe">>, <<"idle", "done">>, <<"probe", "await">>,
     <<"probe", "done">>, <<"await", "done">>}

SaveOrder ==
    {<<"none", "start">>, <<"none", "not_started">>, <<"start", "selected">>,
     <<"start", "no_user">>, <<"selected", "deleted">>,
     <<"deleted", "inserted">>, <<"inserted", "committed">>}
        \cup {<<pc, "failed">> : pc \in {"start", "selected", "deleted",
                                        "inserted"}}

C30_Saving(t) ==
    /\ SaveStarted(t) =>
           /\ turn[t].pc = "done"
           /\ turn[t].status = 200
           /\ turn[t].outcome = Completed(turn[t].response)
           /\ save[t].conversation_history = turn[t].out_history
    /\ txn.owner = t =>
           /\ save[t].pc \in {"deleted", "inserted"}
           /\ \A c \in txn.conversations \ conversations :
                  json_loads(c.messages) = turn[t].out_history
    /\ Cardinality(SaveCommits(t)) <= 1
    /\ SaveCommits(t) # {} => save[t].pc = "committed"

C30_Step(t) ==
    /\ turn'[t].pc # turn[t].pc => <<turn[t].pc, turn'[t].pc>> \in TurnOrder
    /\ save'[t].pc # save[t].pc => <<save[t].pc, save'[t].pc>> \in SaveOrder
    /\ (save[t].pc = "none" /\ save'[t].pc # "none") =>
           turn[t].pc = "await" /\ turn'[t].status = 200
    /\ (txn'.owner = t /\ txn.owner # t) => turn[t].status = 200
    /\ SaveCommits(t)' # SaveCommits(t) =>
           /\ turn[t].status = 200
           /\ \E c \in conversations' \ conversations :
                  /\ conversations' \ conversations = {c}
                  /\ json_loads(c.messages) = turn[t].out_history

\* C30: a turn moves from received to probed to awaiting the backend to
\* answered, and its save from started to committed or failed, never
\* backwards; the save is started once, in the step that answers the turn
\* with 200, so every write of the save comes after the completion
\* succeeded and the reply was built; a turn commits at most one save, and
\* the row it writes holds exactly the history the turn returned.
C30_SaveFollowsReply ==
    /\ [](\A t \in Turns : C30_Saving(t))
    /\ [][\A t \in Turns : C30_Step(t)]_vars

C30_Witness ==
    \E t, k \in Turns :
        /\ SaveCommits(t) # {}
        /\ Supplied(t) # <<>>
        /\ \A c \in conversations : json_loads(c.messages) = turn[t].out_history
        /\ turn[k].status = 500
        /\ turn[k].online = "online"
        /\ save[k].pc = "none"

-----------------------------------------------------------------------------
(* Concurrent handlers of one user and the records of the users: C31, C32. *)

\* the turns answered 200 for the user of row c
TurnsOfOwner(c) ==
    {t \in Turns :
        /\ turn[t].pc = "done" /\ turn[t].status = 200
        /\ \E u \in users : u.id = c.user_id /\ u.username = turn[t].username}

\* C31: whatever the interleaving of the handlers and save threads, every
\* user holds no conversation row or one row, and that row's messages are,
\* message for message, the history returned by one answered turn of that
\* same user.
C31_PersistedIsOneTurnsHistory ==
    \A u \in users :
        /\ Cardinality(UserRows(conversations, u.id)) <= 1
        /\ \A c \in UserRows(conversations, u.id) :
               \E t \in TurnsOfOwner(c) :
                   /\ Len(json_loads(c.messages)) = Len(turn[t].out_history)
                   /\ \A i \in 1..Len(turn[t].out_history) :
                          json_loads(c.messages)[i] = turn[t].out_history[i]

C31_Witness ==
    \E t, k \in Turns, u \in users :
        /\ t # k
        /\ turn[t].username = u.username /\ turn[k].username = u.username
        /\ Committed(t) /\ Committed(k)
        /\ turn[k].req.conversation_history = turn[t].out_history
        /\ RowsHold(u.id, turn[t].out_history)
        /\ Len(writeLog) = 2 /\ writeLog[1].turn = k

Kept(u) ==
    \E v \in users' :
        /\ v.id = u.id
        /\ v.username = u.username
        /\ u.password_hash # NULL => v.password_hash = u.password_hash

\* C32: no step removes a user record or changes its username, and no step
\* changes a password hash that is not null: a hash is written only with a
\* new record (register) and into a record whose hash is null (the first
\* login of a legacy user).
C32_UserRecordsKept == [][\A u \in users : Kept(u)]_vars

-----------------------------------------------------------------------------
(* The client and its turns: C33, C34, C35, C36, C39.                      *)

\* C33: a turn the client stopped waiting for is not cancelled: the
\* handler still reaches its answer, and its save, if it was started, runs
\* to its end.
C33_AbandonedTurnStillCompletes ==
    \A t \in Turns :
        (t \in client.abandoned) ~> (turn[t].pc = "done" /\ ~SaveActive(t))

C33_Witness ==
    \E t \in Turns :
        /\ t \in client.abandoned
        /\ client.result = "timeout"
        /\ client.conversation_history = <<>>
        /\ Committed(t)
        /\ RowsHold(1, turn[t].out_history)
        /\ turn[t].out_history # <<>>

C34_Step ==
    client'.sent # client.sent =>
        /\ client'.sent = client.sent + 1
        /\ client'.prompts = client.prompts + 1
        /\ client.pc = "input"

\* C34: the client posts a chat request only in the step in which the user
\* entered a prompt, one request for that prompt, so the requests it has
\* sent and the requests the server has received never outnumber the
\* prompts, whatever the earlier turns ended with.
C34_OneRequestPerPrompt ==
    /\ [](client.sent <= client.prompts /\ Delivered <= client.prompts)
    /\ [][C34_Step]_vars

C34_Witness ==
    /\ client.prompts = 2
    /\ client.sent = 2
    /\ client.lost = 1
    /\ client.result = "error"
    /\ turn[1].status = 500

ChatEnds == client.pc = "waiting" /\ client'.pc # "waiting"

C39_Step ==
    /\ ChatEnds =>
           IF Pending /\ turn[Serving].pc = "done" /\ turn[Serving].status = 200
              /\ client'.result # "timeout"
           THEN client'.conversation_history = turn[Serving].out_history
           ELSE client'.conversation_history = client.conversation_history
    /\ client'.pc = "waiting" =>
           client'.conversation_history = client.conversation_history

\* C39: when a chat call of the client ends, its history becomes the
\* conversation_history of the answer if the server answered 200, and stays
\* as it was after every other status, a connection error or a timeout;
\* sending the request does not change it.
C39_ClientHistoryOnSuccessOnly == [][C39_Step]_vars

C39_Witness ==
    /\ client.result = "offline"
    /\ client.conversation_history # <<>>
    /\ client.conversation_history = turn[1].out_history
    /\ turn[2].status = 503

\* the client waited for every answer, and nothing was cleared
OneAfterAnother ==
    /\ client.abandoned = {}
    /\ \A i \in DOMAIN writeLog : writeLog[i].kind = "save"

SavedLength(i) == Len(turn[writeLog[i].turn].out_history)

AllSaved ==
    /\ client.pc = "input"
    /\ \A t \in Turns : turn[t].pc \in {"idle", "done"}
    /\ \A t \in Turns : turn[t].status = 200 => Committed(t)

\* C35: when the client sends each turn after the answer to the one before
\* and clears nothing, no committed save of the user writes a shorter
\* conversation than the committed save before it, and when every answered
\* turn's save has committed the stored conversation is the history the
\* client holds, that of its last turn.
C35_SequentialTurnsSaveInOrder ==
    OneAfterAnother =>
        /\ \A i, j \in DOMAIN writeLog :
               i < j => SavedLength(i) <= SavedLength(j)
        /\ (AllSaved /\ writeLog # <<>>) =>
               RowsHold(1, client.conversation_history)

Recreates(t) == SaveCommits(t)' # SaveCommits(t)

\* C36: once the clear the client asked for has answered 200, no save of
\* a turn that had been answered before the clear was requested commits.
C36_ClearIsNotUndone ==
    [][\A t \in Turns :
          (client.cleared /\ t \in client.replied) => ~Recreates(t)]_vars

-----------------------------------------------------------------------------
(* The save thread alone: C37, C38.                                        *)

SaveFailed(t) == save[t].pc = "failed"

\* what the committed saves of the user left, when nothing else writes
LeftBySaves(user_id) ==
    LET log == UserLog(user_id)
    IN  IF log = <<>> THEN UserRows(conversations, user_id) = {}
        ELSE RowsHold(user_id, turn[log[Len(log)].turn].out_history)

C37_Fails(t) ==
    (~SaveFailed(t) /\ SaveFailed(t)') =>
        /\ conversations' = conversations
        /\ nextConvId' = nextConvId
        /\ txn'.owner # t

C37_Applied ==
    conversations' # conversations =>
        \E t \in Turns :
            /\ save[t].pc = "inserted" /\ save'[t].pc = "committed"
            /\ UserRows(conversations', save[t].user_id) # {}

\* C37: the step in which a save fails, at whatever statement, leaves the
\* committed rows as they are and gives up the transaction, so after a
\* failed save the user's rows are those the last committed save left; the
\* committed rows change only in a commit that applies the DELETE together
\* with the INSERT.
C37_FailedSaveChangesNothing ==
    /\ [](\A t \in Turns : SaveFailed(t) => LeftBySaves(save[t].user_id))
    /\ [][C37_Applied /\ \A t \in Turns : C37_Fails(t)]_vars

C37_Witness ==
    \E t, k \in Turns :
        /\ SaveFailed(t) /\ save[t].user_id = 1
        /\ Committed(k)
        /\ RowsHold(1, turn[k].out_history)
        /\ turn[t].out_history # turn[k].out_history
        /\ turn[t].seq > turn[k].seq

Unregistered_turn(t) ==
    turn[t].pc # "idle" /\ user_rows(turn[t].username) = {}

C38_Answered(t) ==
    (Unregistered_turn(t) /\ turn[t].outcome = Completed(hello)) =>
        /\ turn[t].status = 200
        /\ turn[t].response = hello
        /\ turn[t].saved

C38_NothingWritten(t) ==
    Unregistered_turn(t) =>
        /\ save[t].pc \in {"none", "not_started", "start", "no_user", "failed"}
        /\ save[t].user_id = 0
        /\ txn.owner # t
        /\ SaveCommits(t) = {}

C38_Step(t) ==
    (Unregistered_turn(t)' /\ (save'[t] # save[t] \/ turn'[t] # turn[t])) =>
        StoreUntouched /\ nextUserId' = nextUserId

\* C38: a turn for a username without a users row is answered 200 with
\* the reply and saved = true when the backend answers, its save thread
\* ends at the lookup of the user without opening a transaction, and none
\* of the turn's steps changes the users or the conversations table.
C38_UnregisteredTurnSavesNothing ==
    /\ [](\A t \in Turns : C38_Answered(t) /\ C38_NothingWritten(t))
    /\ [][\A t \in Turns : C38_Step(t)]_vars

C38_Witness ==
    \E t, k \in Turns :
        /\ turn[t].username = carol
        /\ turn[t].status = 200 /\ turn[t].saved
        /\ save[t].pc = "no_user"
        /\ Committed(k)
        /\ conversations # {}
        /\ \A u \in users : u.username # carol

-----------------------------------------------------------------------------
(* Every request is answered: C40.                                         *)

StatusCodesOfChat == {200, 400, 500, 503, 504}

C40_Answer(t) ==
    turn[t].pc = "done" => turn[t].status \in StatusCodesOfChat

C40_Once(t) ==
    turn[t].pc = "done" =>
        turn'[t].pc = "done" /\ turn'[t].status = turn[t].status

\* C40: every chat request that was received is answered, the backend
\* calls answering or timing out, whatever the save threads do; the answer
\* is one of 200, 400, 500, 503, 504 and is given once.
C40_EveryRequestAnswered ==
    /\ \A t \in Turns : (turn[t].pc # "idle") ~> (turn[t].pc = "done")
    /\ [](\A t \in Turns : C40_Answer(t))
    /\ [][\A t \in Turns : C40_Once(t)]_vars

C40_Witness ==
    \E t, k \in Turns :
        /\ turn[t].pc = "done" /\ turn[t].status = 200
        /\ save[t].pc = "start"
        /\ txn.owner = k /\ k # t
        /\ turn[k].status = 200

====
